---- MODULE Spec2Model ----
(***************************************************************************)
(* The signal lifecycle and position-risk engine of Sidbot-V2: the signal  *)
(* watchlist (one row per symbol), the broker's positions and protective   *)
(* stop orders, and the scheduled handlers of main.py that move a signal   *)
(* from discovery through validation, scoring, entry and exit.             *)
(*                                                                         *)
(* Prices are whole numbers of ticks, TicksPerUnit ticks to one currency   *)
(* unit.  An optional value (a nullable column, a Python None) is the      *)
(* empty sequence None or the one-element sequence Some(v).                *)
(***************************************************************************)
EXTENDS Integers, Sequences, FiniteSets, TLC

\* ---------------------------------------------------------------- bounds
MinPrice == 4
MaxPrice == 9
TicksPerUnit == 2
\* the stretch of one session the main loop is followed through, in seconds
\* after midnight: 15:44:00 to 16:01:30
LoopStart == 56640
LoopHorizon == 57690

\* ----------------------------------------------------- config.py constants
MAX_OPEN_POSITIONS == 3
RSI_EXTREME_OVERSOLD == 30
RSI_EXTREME_OVERBOUGHT == 70
RSI_MOMENTUM_ROOM_LONG == 45
RSI_MOMENTUM_ROOM_SHORT == 55
RSI_EXIT_TARGET == 50
ATR_MULTIPLIER == 3
RISK_PER_TRADE_PCT == 1
SHORTING_MIN_EQUITY == 2000
DISCOVERY_MIN_BARS == 15
EXIT_MIN_BARS == 20
VALIDATION_MIN_BARS == 50
WEEKLY_RSI_WINDOW == 14
WEIGHT_PREFERRED_LIST == 2
WEIGHT_SPY_ALIGNMENT == 1
EARNINGS_RESTRICTION_DAYS == 14
SIGNAL_EXPIRY_DAYS == 60
\* main.py: the time of the entry job (15:45) in seconds after midnight, the
\* seconds between two exit scans, the sleep of an iteration and the pause
\* after a caught exception
EXECUTION_AT == 56700
EXIT_POLL_SECONDS == 300
SLEEP_SECONDS == 1
PAUSE_SECONDS == 30
\* main.py: the session window in minutes after midnight, Eastern time
\* (09:30 and 16:00), and the first weekday() value of the weekend
MARKET_START == 570
MARKET_END == 960
WEEKEND_START == 5

\* ------------------------------------------------------------ value sets
Symbols == {"AAA", "BBB"}
StopStrategies == {"FIXED_WHOLE", "ATR_TRAIL"}
ExitStrategies == {"FIXED", "MOMENTUM"}
Prices == {MinPrice, MaxPrice}
\* RSI readings: one in every band the thresholds 30/45/50/55/70 cut out
RsiLevels == {25, 45, 50, 55, 75}
\* how many daily bars market_data holds for a symbol
BarCounts == {10, 60}
Slopes == {-1, 0, 1}
WeeklyPoints == {13, 14}
EquityLevels == {200, 2000}
\* ATR(14) of the recent bars, in ticks
MinAtr == 1
AtrLevels == {MinAtr}

None == <<>>
Some(v) == <<v>>
\* Python truthiness of a nullable number: None and 0 are both falsy
Truthy(opt) == opt # None /\ opt[1] # 0

Max(a, b) == IF a >= b THEN a ELSE b
Min(a, b) == IF a <= b THEN a ELSE b
Abs(a) == IF a >= 0 THEN a ELSE 0 - a

VARIABLES
    ticker_reference,  \* the symbols the bot scans (table ticker_reference)
    config,            \* the strategy selectors and toggles of config.py
    market,            \* market_data: per symbol, the latest daily RSI(14)
    watchlist,         \* sid_method_signal_watchlist: symbol -> Signal row
    positions,         \* broker: symbol -> [qty, side] of the open position
    stop_orders,       \* broker: symbol -> price of the open protective stop
    pc,                \* where run_prep_sequence stands between its steps
    now,               \* the Eastern wall-clock time: [weekday, minute]
    log,               \* what the last handler logged, per symbol
    ghost,             \* history per symbol, for the lifecycle claims
    loop               \* main(): its position, clock and last_exit_check

vars == <<ticker_reference, config, market, watchlist, positions, stop_orders,
          pc, now, log, ghost, loop>>

\* ---------------------------------------------------------- is_market_open
\* a session test that leaves out the weekday: what C30 rules out
is_market_open_AnyDay(t) ==
    MARKET_START <= t.minute /\ t.minute <= MARKET_END

is_market_open(t) ==
    MARKET_START <= t.minute /\ t.minute <= MARKET_END /\ t.weekday < WEEKEND_START

\* the clock readings the jobs are observed at: the first and the last
\* minute of a session, the minutes just outside it, and a Saturday
\* (weekday() counts Monday as 0)
SessionOpen == [weekday |-> 0, minute |-> MARKET_START]
ClockReadings ==
    {SessionOpen,
     [weekday |-> 0, minute |-> MARKET_START - 1],
     [weekday |-> WEEKEND_START - 1, minute |-> MARKET_END + 1],
     [weekday |-> WEEKEND_START, minute |-> MARKET_END]}

\* ------------------------------------------------------------ main's loop
\* The loop's position and locals.  clock is time.time() counted in seconds
\* from midnight; last_exit_check is the local of that name; polled_at is
\* the clock of the last call of run_exit_logic; next_run is the time the
\* 15:45 job is next due (None: not again today).  main() starts with
\* last_exit_check = 0, so its first iteration polls.
LoopAtStart ==
    [at |-> "run_pending", clock |-> 0, last_exit_check |-> 0, polled_at |-> 0,
     next_run |-> Some(EXECUTION_AT)]

\* ------------------------------------------------------------- the state
NoEntry == [events |-> {}, prev_rsi |-> None]
NoLog == [s \in Symbols |-> NoEntry]
Events(evs) == [events |-> evs, prev_rsi |-> None]

\* phase1_runs: Phase 1 runs of the open position;
\* closed_since_ready: the position was fully closed after the validation
\* gate last promoted the Signal
GhostInit == [phase1_runs |-> 0, closed_since_ready |-> FALSE]

ConfigSpace ==
    [STOP_LOSS_STRATEGY : StopStrategies,
     EXIT_STRATEGY : ExitStrategies,
     EARLY_EXIT_ON_RSI_REVERSAL : BOOLEAN,
     ALLOW_SHORT : {TRUE}]

Init ==
    /\ ticker_reference = {"AAA"}
    /\ config \in ConfigSpace
    /\ market \in [ticker_reference -> {RSI_EXIT_TARGET}]
    /\ watchlist = <<>>
    /\ positions = <<>>
    /\ stop_orders = <<>>
    /\ pc = "idle"
    /\ now = SessionOpen
    /\ loop = LoopAtStart
    /\ log = NoLog
    /\ ghost = [s \in Symbols |-> GhostInit]

\* ------------------------------------------------ sync_latest_market_data
\* What the day's sync leaves in market_data for one symbol: the latest RSI,
\* the number of bars held, and the latest bar's low and high.
DayData == {d \in [rsi : RsiLevels, bars : BarCounts, low : Prices, high : Prices] :
               d.low <= d.high}

\* --------------------------------------------------- populate_sid_extremes
TouchDirection(curr_rsi) ==
    IF curr_rsi <= RSI_EXTREME_OVERSOLD THEN Some("LONG")
    ELSE IF curr_rsi >= RSI_EXTREME_OVERBOUGHT THEN Some("SHORT")
    ELSE None

\* The row a symbol gets when the upsert inserts it: the columns the payload
\* does not name take the table's defaults.
NewRow ==
    [direction |-> "LONG", extreme_price |-> None, is_ready |-> FALSE,
     is_active |-> FALSE, partial_exit_done |-> FALSE, stop_loss |-> None,
     fill_price |-> None, stop_loss_strategy |-> "FIXED_WHOLE",
     exit_strategy |-> "FIXED", market_score |-> 0]

\* a discovery upsert whose payload also names partial_exit_done (the code's
\* payload does not): what C5 rules out
DiscoveryUpsert_ResetsPartial(old, direction, extreme_val) ==
    [old EXCEPT !.direction = direction,
                !.extreme_price = Some(extreme_val),
                !.is_ready = FALSE,
                !.partial_exit_done = FALSE,
                !.stop_loss_strategy = config.STOP_LOSS_STRATEGY,
                !.exit_strategy = config.EXIT_STRATEGY]

\* upsert(payload, on_conflict="symbol"): the payload's columns are written,
\* every other column of an existing row is kept.
DiscoveryUpsert(old, direction, extreme_val) ==
    [old EXCEPT !.direction = direction,
                !.extreme_price = Some(extreme_val),
                !.is_ready = FALSE,
                !.stop_loss_strategy = config.STOP_LOSS_STRATEGY,
                !.exit_strategy = config.EXIT_STRATEGY]

Touched(d) ==
    /\ d.bars >= DISCOVERY_MIN_BARS
    /\ TouchDirection(d.rsi) # None

\* a discovery pass that takes the extreme from the wrong side of the bar
\* (the high for a LONG touch, the low for a SHORT one), so that tracking
\* and discovery keep overwriting each other: what C23 rules out
populate_sid_extremes_WrongSide(w, bars) ==
    LET touched == {s \in ticker_reference : Touched(bars[s])}
    IN [s \in (DOMAIN w) \cup touched |->
           IF s \in touched
           THEN LET direction == TouchDirection(bars[s].rsi)[1]
                    extreme_val == IF direction = "LONG" THEN bars[s].high
                                   ELSE bars[s].low
                    old == IF s \in DOMAIN w THEN w[s] ELSE NewRow
                IN DiscoveryUpsert(old, direction, extreme_val)
           ELSE w[s]]

\* the watchlist after the discovery pass over the day's data
populate_sid_extremes(w, bars) ==
    LET touched == {s \in ticker_reference : Touched(bars[s])}
    IN [s \in (DOMAIN w) \cup touched |->
           IF s \in touched
           THEN LET direction == TouchDirection(bars[s].rsi)[1]
                    extreme_val == IF direction = "LONG" THEN bars[s].low
                                   ELSE bars[s].high
                    old == IF s \in DOMAIN w THEN w[s] ELSE NewRow
                IN DiscoveryUpsert(old, direction, extreme_val)
           ELSE w[s]]

\* ------------------------------------------- update_staged_extreme_prices
\* One row of the loop: the new extreme_price, written only when the latest
\* bar is more extreme than the stored value (or none is stored).
TrackExtreme(row, bar) ==
    LET stored_extreme == IF Truthy(row.extreme_price) THEN row.extreme_price ELSE None
    IN IF row.direction = "LONG"
       THEN IF stored_extreme = None \/ bar.low < stored_extreme[1]
            THEN [row EXCEPT !.extreme_price = Some(bar.low)] ELSE row
       ELSE IF row.direction = "SHORT"
       THEN IF stored_extreme = None \/ bar.high > stored_extreme[1]
            THEN [row EXCEPT !.extreme_price = Some(bar.high)] ELSE row
       ELSE row

update_staged_extreme_prices(w, bars) ==
    [s \in DOMAIN w |-> IF s \in DOMAIN bars THEN TrackExtreme(w[s], bars[s]) ELSE w[s]]

\* ------------------------------------------------- validate_staged_signals
\* what one pass of the gate reads for a symbol: days to the next earnings
\* report (None: none scheduled), the number of daily bars returned, the
\* number of weekly points, and the last change (last value minus the one
\* before) of the daily RSI, of the weekly RSI and of the MACD line
ValidationInputs ==
    [bars : BarCounts,
     daily_change : Slopes,
     days_to_earnings : {None, Some(EARNINGS_RESTRICTION_DAYS),
                         Some(EARNINGS_RESTRICTION_DAYS + 1)},
     weekly_points : WeeklyPoints,
     weekly_change : Slopes,
     macd_change : Slopes]

\* a window that lets the fourteenth day through: what C11 rules out
EarningsBlocked_StrictWindow(inp) ==
    inp.days_to_earnings # None /\ inp.days_to_earnings[1] < EARNINGS_RESTRICTION_DAYS

EarningsBlocked(inp) ==
    inp.days_to_earnings # None /\ inp.days_to_earnings[1] <= EARNINGS_RESTRICTION_DAYS

\* "turning": the last value moved up (LONG) or down (SHORT) from the one before
Turning(direction, change) == IF direction = "LONG" THEN change > 0 ELSE change < 0

DailyRsiTurning(direction, inp) == Turning(direction, inp.daily_change)

\* calculate_weekly_rsi returns None below `window` weekly points
WeeklyRsiTurning(direction, inp) ==
    IF inp.weekly_points < WEEKLY_RSI_WINDOW THEN FALSE
    ELSE Turning(direction, inp.weekly_change)

MacdTurning(direction, inp) == Turning(direction, inp.macd_change)

\* a gate that passes on any two of the three slopes: what C10 rules out
AllAligned_AnyTwo(d_rsi_turning, w_rsi_turning, macd_turning) ==
    \/ d_rsi_turning /\ w_rsi_turning
    \/ d_rsi_turning /\ macd_turning
    \/ w_rsi_turning /\ macd_turning

AllAligned(d_rsi_turning, w_rsi_turning, macd_turning) ==
    d_rsi_turning /\ w_rsi_turning /\ macd_turning

\* the rows the gate selects: .eq("is_ready", False)
StagedForValidation(w) == {s \in DOMAIN w : w[s].is_ready = FALSE}

\* One row of the loop: the row after, and whether it was promoted.
ValidateOne(row, inp) ==
    IF EarningsBlocked(inp) THEN [row |-> row, event |-> {"BLOCKED"}]
    ELSE IF inp.bars < VALIDATION_MIN_BARS THEN [row |-> row, event |-> {}]
    ELSE IF AllAligned(DailyRsiTurning(row.direction, inp),
                       WeeklyRsiTurning(row.direction, inp),
                       MacdTurning(row.direction, inp))
    THEN [row |-> [row EXCEPT !.is_ready = TRUE], event |-> {"READY"}]
    ELSE [row |-> row, event |-> {}]

validate_staged_signals(w, inp) ==
    [s \in DOMAIN w |->
        IF s \in StagedForValidation(w)
        THEN ValidateOne(w[s], inp[s])
        ELSE [row |-> w[s], event |-> {}]]

\* ----------------------------------------------- score_and_validate_staged
\* the checks whose outcome the environment decides here: the preferred list
\* and SPY alignment (the other weights are held at zero)
ScoreInputs == [preferred : {FALSE}, spy_up : {TRUE}]

SpyAligned(direction, spy_up) ==
    (direction = "LONG" /\ spy_up) \/ (direction = "SHORT" /\ ~spy_up)

TotalScore(direction, inp) ==
    (IF inp.preferred THEN WEIGHT_PREFERRED_LIST ELSE 0)
    + (IF SpyAligned(direction, inp.spy_up) THEN WEIGHT_SPY_ALIGNMENT ELSE 0)

\* the symbols market_data holds bars for
HasBars(s) == s \in DOMAIN market

\* the orders in which a select without .order() may return the rows
RowOrders(w) ==
    {q \in [1..Cardinality(DOMAIN w) -> DOMAIN w] :
        \A i, j \in DOMAIN q : i # j => q[i] # q[j]}

\* a scoring pass that also marks a scored Signal ready: what C24 rules out
ScoreOne_GrantsReadiness(st, s, inp) ==
    IF st.raised # {} THEN st
    ELSE IF ~HasBars(s) THEN [st EXCEPT !.raised = {s}]
    ELSE [st EXCEPT !.w[s].market_score = TotalScore(st.w[s].direction, inp),
                    !.w[s].is_ready = TotalScore(st.w[s].direction, inp) > 0]

\* One iteration of the scoring loop.  The loop has no bar-count check and no
\* try: with no bars the frame has no 'close' column, check_macd_crossover
\* raises, and the exception leaves the function (st.raised names the symbol).
ScoreOne(st, s, inp) ==
    IF st.raised # {} THEN st
    ELSE IF ~HasBars(s) THEN [st EXCEPT !.raised = {s}]
    ELSE [st EXCEPT !.w[s].market_score = TotalScore(st.w[s].direction, inp)]

RECURSIVE ScoreLoop(_, _, _, _)
ScoreLoop(st, order, i, inp) ==
    IF i > Len(order) THEN st
    ELSE ScoreLoop(ScoreOne(st, order[i], inp[order[i]]), order, i + 1, inp)

score_and_validate_staged(w, order, inp) ==
    ScoreLoop([w |-> w, raised |-> {}], order, 1, inp)

\* ------------------------------------------------------ run_prep_sequence
\* The 15:30 job, in two steps: (1) sync, discovery and extreme-price
\* tracking over the day's bars, (2) the validation gate and scoring.  No
\* other job runs between the steps (one thread).

\* Inputs a step never reads are held at one value, so that the same pass is
\* not enumerated once per unread value.  An earnings date just outside the
\* restricted window is read together with fully aligned indicators: it is
\* the case in which the date decides nothing after the earnings check.
DayDataFor(s) ==
    IF s \in DOMAIN watchlist THEN DayData
    ELSE {d \in DayData : Touched(d) \/ (d.low = MinPrice /\ d.high = MinPrice)}

ValidationInputsRead ==
    {i \in ValidationInputs :
        /\ i.weekly_points < WEEKLY_RSI_WINDOW => i.weekly_change = 0
        /\ (EarningsBlocked(i) \/ i.bars < VALIDATION_MIN_BARS)
              => (i.weekly_points = WEEKLY_RSI_WINDOW /\ i.weekly_change = 0
                  /\ i.macd_change = 0 /\ i.daily_change = 0)
        /\ EarningsBlocked(i) => i.bars >= VALIDATION_MIN_BARS
        /\ (i.days_to_earnings # None /\ ~EarningsBlocked(i))
              => (i.bars >= VALIDATION_MIN_BARS
                  /\ i.weekly_points >= WEEKLY_RSI_WINDOW
                  /\ i.daily_change # 0
                  /\ i.weekly_change = i.daily_change
                  /\ i.macd_change = i.daily_change)}

prep_discover_and_track ==
    /\ pc = "idle"
    /\ is_market_open(now)
    /\ \E d \in [ticker_reference -> DayData] :
          /\ \A s \in ticker_reference : d[s] \in DayDataFor(s)
          /\ watchlist' = update_staged_extreme_prices(
                              populate_sid_extremes(watchlist, d), d)
          /\ market' = [s \in ticker_reference |-> d[s].rsi]
    /\ log' = NoLog
    /\ pc' = "tracked"
    /\ UNCHANGED <<ticker_reference, config, positions, stop_orders, now, ghost, loop>>

prep_validate_and_score ==
    /\ pc = "tracked"
    /\ LET staged == StagedForValidation(watchlist)
       IN \E inp \in [staged -> ValidationInputsRead],
             order \in RowOrders(watchlist),
             sin \in [DOMAIN watchlist -> ScoreInputs] :
            LET validated == validate_staged_signals(watchlist, inp)
                gated == [s \in DOMAIN watchlist |-> validated[s].row]
                scored == score_and_validate_staged(gated, order, sin)
            IN /\ \A s \in staged : ~HasBars(s) => inp[s].bars < VALIDATION_MIN_BARS
               /\ watchlist' = scored.w
               /\ log' = [s \in Symbols |->
                            Events((IF s \in DOMAIN validated
                                    THEN validated[s].event ELSE {})
                                   \cup (IF s \in scored.raised
                                         THEN {"RAISED"} ELSE {}))]
               /\ ghost' = [s \in Symbols |->
                              IF s \in DOMAIN validated
                                 /\ "READY" \in validated[s].event
                              THEN [ghost[s] EXCEPT !.closed_since_ready = FALSE]
                              ELSE ghost[s]]
    /\ pc' = "idle"
    /\ UNCHANGED <<ticker_reference, config, market, positions, stop_orders, now,
                   loop>>

\* ------------------------------------------------------------- risk.py
\* calculate_atr_stop: close -/+ ATR * multiplier
calculate_atr_stop(close, atr, direction) ==
    IF direction = "LONG" THEN close - atr * ATR_MULTIPLIER
    ELSE close + atr * ATR_MULTIPLIER

\* calculate_ratchet_stop: the stop only moves toward the price
calculate_ratchet_stop(current_stop, close, atr, direction) ==
    IF direction = "LONG"
    THEN Max(current_stop, close - atr * ATR_MULTIPLIER)
    ELSE Min(current_stop, close + atr * ATR_MULTIPLIER)

IsInteger(price) == price % TicksPerUnit = 0
Floor(price) == (price \div TicksPerUnit) * TicksPerUnit
Ceil(price) == IF IsInteger(price) THEN price ELSE Floor(price) + TicksPerUnit

\* calculate_sid_stop_loss: the next whole number beyond the extreme
\* plain rounding, without the one-unit step for a whole extreme: what C21
\* rules out
calculate_sid_stop_loss_PlainRounding(extreme_price, direction) ==
    IF extreme_price = None THEN None
    ELSE IF direction = "SHORT" THEN Some(Ceil(extreme_price[1]))
    ELSE IF direction = "LONG" THEN Some(Floor(extreme_price[1]))
    ELSE None

calculate_sid_stop_loss(extreme_price, direction) ==
    IF extreme_price = None THEN None
    ELSE IF direction = "SHORT"
    THEN IF IsInteger(extreme_price[1]) THEN Some(extreme_price[1] + TicksPerUnit)
         ELSE Some(Ceil(extreme_price[1]))
    ELSE IF direction = "LONG"
    THEN IF IsInteger(extreme_price[1]) THEN Some(extreme_price[1] - TicksPerUnit)
         ELSE Some(Floor(extreme_price[1]))
    ELSE None

\* calculate_position_size: floor(equity * risk / |entry - stop|), prices in
\* ticks and risk_percent in hundredths
\* the size rounded up instead of down: what C22 rules out
calculate_position_size_RoundsUp(equity, risk_pct, entry_price, stop_loss) ==
    LET risk_per_share == Abs(entry_price - stop_loss)
    IN IF risk_per_share = 0 THEN 0
       ELSE (equity * risk_pct * TicksPerUnit + 100 * risk_per_share - 1)
               \div (100 * risk_per_share)

calculate_position_size(equity, risk_pct, entry_price, stop_loss) ==
    LET risk_per_share == Abs(entry_price - stop_loss)
    IN IF risk_per_share = 0 THEN 0
       ELSE (equity * risk_pct * TicksPerUnit) \div (100 * risk_per_share)

\* ------------------------------------------------------ execute_sid_entries
Accounts == [equity : EquityLevels, shorting_enabled : BOOLEAN]

\* below the equity gate the broker's shorting flag is never decisive
AccountsRead == {a \in Accounts : a.equity < SHORTING_MIN_EQUITY => ~a.shorting_enabled}

\* what the pass reads for one ready symbol: the last close and ATR of its
\* bars, the live trade price, and whether the broker accepts the order
EntryInputs == [close : Prices, atr : AtrLevels, entry_price : Prices, order_ok : BOOLEAN]

\* the configuration switch alone, without the account's shorting flag and
\* equity: what C36 rules out
IsShortingAllowed_ConfigOnly(account) == config.ALLOW_SHORT

IsShortingAllowed(account) ==
    config.ALLOW_SHORT /\ account.shorting_enabled /\ account.equity >= SHORTING_MIN_EQUITY

\* a room check against the discovery extremes instead of the momentum-room
\* thresholds: what C26 rules out
OutOfRoom_ExtremesOnly(direction, curr_rsi) ==
    \/ direction = "LONG" /\ curr_rsi >= RSI_EXTREME_OVERBOUGHT
    \/ direction = "SHORT" /\ curr_rsi <= RSI_EXTREME_OVERSOLD

OutOfRoom(direction, curr_rsi) ==
    \/ direction = "LONG" /\ curr_rsi > RSI_MOMENTUM_ROOM_LONG
    \/ direction = "SHORT" /\ curr_rsi < RSI_MOMENTUM_ROOM_SHORT

\* a selection without the is_ready filter: what C9 rules out
ReadySignals_Unfiltered(w) == DOMAIN w

\* the rows the pass selects: .eq("is_ready", True)
ReadySignals(w) == {s \in DOMAIN w : w[s].is_ready}

\* the ready rows in any order, as a select without .order() may return
\* them: what C25 rules out
ScoreOrders_AnyOrder(w) ==
    {q \in [1..Cardinality(ReadySignals(w)) -> ReadySignals(w)] :
        \A i, j \in DOMAIN q : i # j => q[i] # q[j]}

\* the orders in which .order("market_score", desc=True) may return them
ScoreOrders(w) ==
    {q \in [1..Cardinality(ReadySignals(w)) -> ReadySignals(w)] :
        /\ \A i, j \in DOMAIN q : i # j => q[i] # q[j]
        /\ \A i, j \in DOMAIN q : i < j => w[q[i]].market_score >= w[q[j]].market_score}

\* a limit test against the count read at the start of the pass, blind to
\* the entries of the pass itself: what C34 rules out
SlotsFull_StartOnly(st) == Cardinality(DOMAIN positions) >= MAX_OPEN_POSITIONS

\* the limit test at the start of the pass and at the head of every
\* iteration: current_pos_count >= MAX_OPEN_POSITIONS
SlotsFull(st) == st.current_pos_count >= MAX_OPEN_POSITIONS

\* a submission that never fails: what C37 rules out
OrderAccepted_Always(inp) == TRUE

\* submit_order returned without raising
OrderAccepted(inp) == inp.order_ok

\* a pass that never looks at the open positions: what C35 rules out
AlreadyHeld_NotChecked(st, s) == FALSE

\* the symbol is among the positions read at the start of the pass or
\* entered earlier in it: symbol in open_position_symbols
AlreadyHeld(st, s) == s \in st.open_position_symbols

\* One iteration of the loop over the ready signals.  st holds the tables
\* and the pass's locals (current_pos_count, open_position_symbols).
EntryOne(st, s, account, inp) ==
    LET signal == st.w[s]
        direction == signal.direction
        sl_strat == config.STOP_LOSS_STRATEGY
        exit_strat == config.EXIT_STRATEGY
        stop_loss == IF sl_strat = "ATR_TRAIL"
                     THEN Some(calculate_atr_stop(inp.close, inp.atr, direction))
                     ELSE calculate_sid_stop_loss(signal.extreme_price, direction)
        staged == [signal EXCEPT !.stop_loss_strategy = sl_strat,
                                 !.exit_strategy = exit_strat,
                                 !.stop_loss = stop_loss]
        qty == calculate_position_size(account.equity, RISK_PER_TRADE_PCT,
                                       inp.entry_price, stop_loss[1])
    IN IF SlotsFull(st) \/ st.aborted THEN st
       ELSE IF direction = "SHORT" /\ ~IsShortingAllowed(account) THEN st
       ELSE IF AlreadyHeld(st, s) THEN st
       ELSE IF ~HasBars(s)
       THEN [st EXCEPT !.aborted = TRUE, !.log[s] = Events({"RAISED"})]
       ELSE IF OutOfRoom(direction, market[s]) THEN st
       ELSE IF stop_loss = None
       THEN [st EXCEPT !.w[s] = staged, !.aborted = TRUE]
       ELSE IF qty <= 0 THEN [st EXCEPT !.w[s] = staged]
       ELSE IF ~OrderAccepted(inp)
       THEN [st EXCEPT !.w[s] = staged]
       ELSE [st EXCEPT
               !.w[s] = [staged EXCEPT !.is_active = TRUE,
                                       !.fill_price = Some(inp.entry_price)],
               !.pos = [x \in DOMAIN st.pos \cup {s} |->
                          IF x = s
                          THEN [qty |-> qty,
                                side |-> IF direction = "LONG" THEN "LONG"
                                         ELSE "SHORT"]
                          ELSE st.pos[x]],
               !.stops = [x \in DOMAIN st.stops \cup {s} |->
                            IF x = s THEN stop_loss[1] ELSE st.stops[x]],
               !.current_pos_count = st.current_pos_count + 1,
               !.open_position_symbols = st.open_position_symbols \cup {s},
               !.log[s] = Events({"ENTRY"}),
               !.ghost[s] = [st.ghost[s] EXCEPT !.phase1_runs = 0]]

RECURSIVE EntryLoop(_, _, _, _, _)
EntryLoop(st, order, i, account, inp) ==
    IF i > Len(order) THEN st
    ELSE EntryLoop(EntryOne(st, order[i], account, inp[order[i]]), order, i + 1,
                   account, inp)

execute_sid_entries(account, order, inp) ==
    LET st0 == [w |-> watchlist, pos |-> positions, stops |-> stop_orders,
                current_pos_count |-> Cardinality(DOMAIN positions),
                open_position_symbols |-> DOMAIN positions,
                log |-> NoLog, ghost |-> ghost, aborted |-> FALSE]
    IN IF SlotsFull(st0) THEN st0
       ELSE EntryLoop(st0, order, 1, account, inp)

\* the symbols whose inputs the pass can read
Enterable(account) ==
    {s \in ReadySignals(watchlist) :
        /\ s \notin DOMAIN positions
        /\ HasBars(s)
        /\ ~OutOfRoom(watchlist[s].direction, market[s])
        /\ ~(watchlist[s].direction = "SHORT" /\ ~IsShortingAllowed(account))}

EntryInputsFor(account, s) ==
    IF s \in Enterable(account)
    THEN {i \in EntryInputs :
             config.STOP_LOSS_STRATEGY # "ATR_TRAIL" => (i.close = MinPrice /\ i.atr = MinAtr)}
    ELSE {[close |-> MinPrice, atr |-> MinAtr, entry_price |-> MinPrice, order_ok |-> TRUE]}

run_execution_sequence ==
    /\ pc = "idle"
    /\ is_market_open(now)
    /\ \E account \in AccountsRead, order \in ScoreOrders(watchlist) :
         \E inp \in [ReadySignals(watchlist) -> EntryInputs] :
           /\ \A s \in ReadySignals(watchlist) : inp[s] \in EntryInputsFor(account, s)
           /\ LET st == execute_sid_entries(account, order, inp)
              IN /\ watchlist' = st.w
                 /\ positions' = st.pos
                 /\ stop_orders' = st.stops
                 /\ log' = st.log
                 /\ ghost' = st.ghost
    /\ UNCHANGED <<ticker_reference, config, market, pc, now, loop>>

\* ------------------------------------------------ monitor_and_execute_exits
\* what one cycle reads for a position besides the latest RSI: the bars held,
\* the two RSI readings before the latest, and the last close and ATR
ExitInputs ==
    [bars : BarCounts, prev_rsi : RsiLevels, prev_prev_rsi : RsiLevels,
     close : Prices, atr : AtrLevels]

\* a target reached only once the RSI is past it: what C16 rules out
AtRsiTarget_BeyondTarget(side, curr_rsi) ==
    \/ side = "LONG" /\ curr_rsi > RSI_EXIT_TARGET
    \/ side = "SHORT" /\ curr_rsi < RSI_EXIT_TARGET

AtRsiTarget(side, curr_rsi) ==
    \/ side = "LONG" /\ curr_rsi >= RSI_EXIT_TARGET
    \/ side = "SHORT" /\ curr_rsi <= RSI_EXIT_TARGET

\* a reversal test satisfied by the latest bar alone: what C15 rules out
TwoDayReversal_LatestBarOnly(side, curr_rsi, prev_rsi, prev_prev_rsi) ==
    \/ side = "LONG" /\ curr_rsi < prev_rsi
    \/ side = "SHORT" /\ curr_rsi > prev_rsi

TwoDayReversal(side, curr_rsi, prev_rsi, prev_prev_rsi) ==
    \/ side = "LONG" /\ curr_rsi < prev_rsi /\ prev_rsi < prev_prev_rsi
    \/ side = "SHORT" /\ curr_rsi > prev_rsi /\ prev_rsi > prev_prev_rsi

\* a momentum test satisfied by the target alone: what C3 rules out
check_momentum_exit_TargetOnly(side, curr_rsi, prev_rsi) ==
    IF side = "LONG" THEN curr_rsi >= RSI_EXIT_TARGET ELSE curr_rsi <= RSI_EXIT_TARGET

check_momentum_exit(side, curr_rsi, prev_rsi) ==
    IF side = "LONG"
    THEN curr_rsi >= RSI_EXIT_TARGET /\ curr_rsi < prev_rsi
    ELSE curr_rsi <= RSI_EXIT_TARGET /\ curr_rsi > prev_rsi

\* the Phase 2 guard: elif partial_done and check_momentum_exit(...)
Phase2Due(partial_done, side, curr_rsi, prev_rsi) ==
    partial_done /\ check_momentum_exit(side, curr_rsi, prev_rsi)

\* the Phase 1 guard: if not partial_done and at_rsi_target
Phase1Due(partial_done, at_rsi_target) == ~partial_done /\ at_rsi_target

\* the early-exit guard
EarlyExitDue(at_rsi_target, partial_done, side, curr_rsi, prev_rsi, prev_prev_rsi) ==
    /\ config.EARLY_EXIT_ON_RSI_REVERSAL
    /\ ~at_rsi_target
    /\ ~partial_done
    /\ TwoDayReversal(side, curr_rsi, prev_rsi, prev_prev_rsi)

\* Phase 1's write to the row: partial_exit_done, and the break-even stop
\* when a fill price is stored
\* a Phase 1 that writes nothing when no fill price is stored: what C18
\* rules out
Phase1Update_SkipsWithoutFill(row, fill_price) ==
    IF fill_price # None
    THEN [row EXCEPT !.partial_exit_done = TRUE, !.stop_loss = fill_price]
    ELSE row

Phase1Update(row, fill_price) ==
    IF fill_price # None
    THEN [row EXCEPT !.partial_exit_done = TRUE, !.stop_loss = fill_price]
    ELSE [row EXCEPT !.partial_exit_done = TRUE]

\* The result of one iteration for a position: the row, the position and the
\* stop order after it (None: closed / none), and what was logged.
Cycle(row, pos, stop, events, prev_rsi, phase1, closed) ==
    [row |-> row, pos |-> pos, stop |-> stop,
     log |-> [events |-> events, prev_rsi |-> prev_rsi],
     phase1 |-> phase1, closed |-> closed]

FullClose(row, event, prev_rsi) ==
    Cycle([row EXCEPT !.is_active = FALSE], None, None, {event}, prev_rsi, FALSE, TRUE)

\* step 5, the ratchet, applied to what the exit rules left
Ratchet(c, sl_strat, stored_stop, side, inp) ==
    IF sl_strat = "ATR_TRAIL" /\ stored_stop # None
    THEN LET new_stop == calculate_ratchet_stop(stored_stop[1], inp.close, inp.atr, side)
         IN IF new_stop # stored_stop[1]
            THEN [c EXCEPT !.row.stop_loss = Some(new_stop),
                           !.stop = IF c.stop # None THEN Some(new_stop) ELSE None]
            ELSE c
    ELSE c

MonitorOne(s, row, pos, stop, inp) ==
    LET side == pos.side
        qty == pos.qty
        exit_strat == row.exit_strategy
        sl_strat == row.stop_loss_strategy
        stored_stop == IF Truthy(row.stop_loss) THEN row.stop_loss ELSE None
        curr_rsi == market[s]
        at_rsi_target == AtRsiTarget(side, curr_rsi)
        partial_done == row.partial_exit_done
        fill_price == IF Truthy(row.fill_price) THEN row.fill_price ELSE None
        partial_qty == qty \div 2
        hold == Cycle(row, Some(pos), stop, {}, None, FALSE, FALSE)
    IN IF inp.bars < EXIT_MIN_BARS THEN hold
       ELSE IF EarlyExitDue(at_rsi_target, partial_done, side, curr_rsi,
                            inp.prev_rsi, inp.prev_prev_rsi)
       THEN FullClose(row, "EARLY EXIT", None)
       ELSE IF exit_strat = "MOMENTUM"
       THEN IF Phase1Due(partial_done, at_rsi_target)
            THEN Ratchet(
                   Cycle(Phase1Update(row, fill_price),
                         Some([pos EXCEPT !.qty = qty - partial_qty]),
                         IF fill_price # None /\ stop # None THEN fill_price ELSE stop,
                         {"PHASE 1"}
                            \cup (IF partial_qty > 0 THEN {"PARTIAL EXIT"} ELSE {})
                            \cup (IF fill_price # None /\ stop # None
                                  THEN {"BREAK EVEN"} ELSE {})
                            \cup (IF fill_price = None THEN {"FILL MISSING"} ELSE {}),
                         None, TRUE, FALSE),
                   sl_strat, stored_stop, side, inp)
            ELSE IF Phase2Due(partial_done, side, curr_rsi, inp.prev_rsi)
            THEN FullClose(row, "MOMENTUM EXIT", Some(inp.prev_rsi))
            ELSE Ratchet(hold, sl_strat, stored_stop, side, inp)
       ELSE IF at_rsi_target
       THEN FullClose(row, "FIXED EXIT", None)
       ELSE Ratchet(hold, sl_strat, stored_stop, side, inp)

\* the positions whose watchlist row the cycle finds
Monitored == (DOMAIN positions) \cap (DOMAIN watchlist)

StopOf(s) == IF s \in DOMAIN stop_orders THEN Some(stop_orders[s]) ELSE None

monitor_and_execute_exits(inp) ==
    [s \in Monitored |-> MonitorOne(s, watchlist[s], positions[s], StopOf(s), inp[s])]

ExitInputsFor(s) ==
    {i \in ExitInputs :
        /\ ~config.EARLY_EXIT_ON_RSI_REVERSAL => i.prev_prev_rsi = RSI_EXIT_TARGET
        /\ watchlist[s].stop_loss_strategy # "ATR_TRAIL" => (i.close = MinPrice /\ i.atr = MinAtr)
        /\ i.bars < EXIT_MIN_BARS
              => (i.prev_rsi = RSI_EXIT_TARGET /\ i.prev_prev_rsi = RSI_EXIT_TARGET
                  /\ i.close = MinPrice /\ i.atr = MinAtr)}

BumpPhase1(g) == [g EXCEPT !.phase1_runs = Min(g.phase1_runs + 1, 2)]

\* the writes of one call of exit.monitor_and_execute_exits()
exit_scan ==
    \E inp \in [Monitored -> ExitInputs] :
          /\ \A s \in Monitored : inp[s] \in ExitInputsFor(s)
          /\ LET out == monitor_and_execute_exits(inp)
             IN /\ watchlist' = [s \in DOMAIN watchlist |->
                                    IF s \in Monitored THEN out[s].row ELSE watchlist[s]]
                /\ positions' =
                      [s \in {x \in DOMAIN positions :
                                 x \in Monitored => out[x].pos # None} |->
                          IF s \in Monitored THEN out[s].pos[1] ELSE positions[s]]
                /\ stop_orders' =
                      [s \in {x \in DOMAIN stop_orders :
                                 x \in Monitored => out[x].stop # None} |->
                          IF s \in Monitored THEN out[s].stop[1] ELSE stop_orders[s]]
                /\ log' = [s \in Symbols |->
                             IF s \in Monitored THEN out[s].log ELSE NoEntry]
                /\ ghost' = [s \in Symbols |->
                               IF s \notin Monitored THEN ghost[s]
                               ELSE IF out[s].closed
                               THEN [phase1_runs |-> 0, closed_since_ready |-> TRUE]
                               ELSE IF out[s].phase1 THEN BumpPhase1(ghost[s])
                               ELSE ghost[s]]

run_exit_logic ==
    /\ pc = "idle"
    /\ is_market_open(now)
    /\ exit_scan
    /\ UNCHANGED <<ticker_reference, config, market, pc, now, loop>>

\* --------------------------------------------------- cleanup_expired_signals
\* a sweep that selects every row: what C28 rules out
SweepCandidates_EveryRow(w) == DOMAIN w

\* the rows the sweep selects: .neq("is_active", True)
SweepCandidates(w) == {s \in DOMAIN w : w[s].is_active # TRUE}

\* days between a row's rsi_touch_date and the sweep
TouchAges == {SIGNAL_EXPIRY_DAYS, SIGNAL_EXPIRY_DAYS + 1}

\* touch_date < now - SIGNAL_EXPIRY_DAYS
Expired(age) == age > SIGNAL_EXPIRY_DAYS

cleanup_expired_signals(w, age) ==
    [s \in {x \in DOMAIN w : ~(x \in SweepCandidates(w) /\ Expired(age[x]))} |-> w[s]]

run_daily_maintenance ==
    /\ pc = "idle"
    /\ \E age \in [SweepCandidates(watchlist) -> TouchAges] :
          /\ watchlist' = cleanup_expired_signals(watchlist, age)
          /\ log' = [s \in Symbols |->
                       IF s \in DOMAIN watchlist
                          /\ s \notin DOMAIN cleanup_expired_signals(watchlist, age)
                       THEN Events({"EXPIRED"}) ELSE NoEntry]
    /\ UNCHANGED <<ticker_reference, config, market, positions, stop_orders, pc, now,
                   ghost, loop>>

\* ------------------------------------------------------------ environment
\* The broker fills a position's protective stop order: the position is
\* closed at the broker; the watchlist is not told.
BrokerStopFill ==
    /\ pc = "idle"
    /\ \E s \in (DOMAIN positions) \cap (DOMAIN stop_orders) :
          /\ positions' = [x \in (DOMAIN positions) \ {s} |-> positions[x]]
          /\ stop_orders' = [x \in (DOMAIN stop_orders) \ {s} |-> stop_orders[x]]
          /\ ghost' = [ghost EXCEPT ![s] = [phase1_runs |-> 0,
                                             closed_since_ready |-> TRUE]]
    /\ log' = NoLog
    /\ UNCHANGED <<ticker_reference, config, market, watchlist, pc, now, loop>>

Next ==
    \/ prep_discover_and_track
    \/ prep_validate_and_score
    \/ run_execution_sequence
    \/ run_exit_logic
    \/ run_daily_maintenance
    \/ BrokerStopFill

Spec == Init /\ [][Next]_vars

\* ------------------------------------------- an entry left unrecorded
\* execute_sid_entries writes the stop to the row, submits the order, and
\* only then writes is_active and fill_price, inside the same try as the
\* order.  When that last update raises, the except arm logs "Failed entry"
\* and the pass goes on: the position and its stop order exist, the row holds
\* the stop but neither is_active nor a fill price.  UnrecordedEntry is that
\* state for a LONG signal touched and entered at MinPrice.
UnrecordedStop(sl_strat) ==
    IF sl_strat = "ATR_TRAIL" THEN calculate_atr_stop(MinPrice, MinAtr, "LONG")
    ELSE calculate_sid_stop_loss(Some(MinPrice), "LONG")[1]

UnrecordedRow(cfg) ==
    [NewRow EXCEPT !.direction = "LONG",
                   !.extreme_price = Some(MinPrice),
                   !.is_ready = TRUE,
                   !.stop_loss = Some(UnrecordedStop(cfg.STOP_LOSS_STRATEGY)),
                   !.stop_loss_strategy = cfg.STOP_LOSS_STRATEGY,
                   !.exit_strategy = cfg.EXIT_STRATEGY,
                   !.market_score = WEIGHT_SPY_ALIGNMENT]

UnrecordedEntry ==
    /\ ticker_reference = {"AAA"}
    /\ config \in {c \in ConfigSpace : /\ c.EXIT_STRATEGY = "MOMENTUM"
                                       /\ ~c.EARLY_EXIT_ON_RSI_REVERSAL}
    /\ market \in [ticker_reference -> {r \in RsiLevels : r <= RSI_EXTREME_OVERSOLD}]
    /\ watchlist = [s \in ticker_reference |-> UnrecordedRow(config)]
    /\ positions =
          [s \in ticker_reference |->
              [qty |-> calculate_position_size(
                           SHORTING_MIN_EQUITY, RISK_PER_TRADE_PCT, MinPrice,
                           UnrecordedStop(config.STOP_LOSS_STRATEGY)),
               side |-> "LONG"]]
    /\ stop_orders = [s \in ticker_reference |->
                         UnrecordedStop(config.STOP_LOSS_STRATEGY)]
    /\ pc = "idle"
    /\ now = SessionOpen
    /\ loop = LoopAtStart
    /\ log = NoLog
    /\ ghost = [s \in Symbols |-> GhostInit]

SpecUnrecorded == UnrecordedEntry /\ [][Next]_vars

\* ------------------------------------------- a signal without bar history
\* The watchlist holds a ready row for BBB, a symbol market_data has no bars
\* for (it is not in ticker_reference, so no sync fetches it); everything
\* else is as at start-up.  One exit configuration keeps the state space of
\* this specification small.
StaleRow ==
    [NewRow EXCEPT !.extreme_price = Some(MinPrice), !.is_ready = TRUE]

StaleSignal ==
    /\ ticker_reference = {"AAA"}
    /\ config \in {c \in ConfigSpace : /\ c.EXIT_STRATEGY = "FIXED"
                                       /\ c.STOP_LOSS_STRATEGY = "FIXED_WHOLE"
                                       /\ ~c.EARLY_EXIT_ON_RSI_REVERSAL}
    /\ market \in [ticker_reference -> {RSI_EXIT_TARGET}]
    /\ watchlist = [s \in Symbols \ ticker_reference |-> StaleRow]
    /\ positions = <<>>
    /\ stop_orders = <<>>
    /\ pc = "idle"
    /\ now = SessionOpen
    /\ loop = LoopAtStart
    /\ log = NoLog
    /\ ghost = [s \in Symbols |-> GhostInit]

SpecStale == StaleSignal /\ [][Next]_vars

\* ------------------------------------------------ the entry pass on its own
\* execute_sid_entries as a function of the tables it reads.  The initial
\* states draw the tables from bounded sets: both symbols ready with either
\* direction and score, the latest RSI on either side of the momentum room,
\* and the account holding none or two positions in symbols the bot does
\* not trade (they count against MAX_OPEN_POSITIONS).
\* The steps are the entry pass and the sweep of expired Signals.
OtherHoldings == {"XXX", "YYY"}

EntryRows(cfg) ==
    {[NewRow EXCEPT !.direction = d,
                    !.extreme_price = Some(MinPrice),
                    !.is_ready = TRUE,
                    !.market_score = m,
                    !.stop_loss_strategy = cfg.STOP_LOSS_STRATEGY,
                    !.exit_strategy = cfg.EXIT_STRATEGY] :
        d \in {"LONG", "SHORT"}, m \in {0, WEIGHT_SPY_ALIGNMENT}}

EntryTables ==
    /\ ticker_reference = Symbols
    /\ config \in {c \in ConfigSpace : /\ c.EXIT_STRATEGY = "FIXED"
                                       /\ ~c.EARLY_EXIT_ON_RSI_REVERSAL}
    /\ market \in [Symbols -> {RSI_MOMENTUM_ROOM_LONG, RSI_MOMENTUM_ROOM_SHORT}]
    /\ watchlist \in [Symbols -> EntryRows(config)]
    /\ positions \in {[x \in held |-> [qty |-> 1, side |-> "LONG"]] :
                         held \in {{}, OtherHoldings}}
    /\ stop_orders = <<>>
    /\ pc = "idle"
    /\ now = SessionOpen
    /\ loop = LoopAtStart
    /\ log = NoLog
    /\ ghost = [s \in Symbols |-> GhostInit]

NextEntryPass ==
    \/ run_execution_sequence
    \/ run_daily_maintenance

SpecEntryPass == EntryTables /\ [][NextEntryPass]_vars

\* ------------------------------------- a signal with an unknown direction
\* The entry pass on tables in which AAA's row carries a direction that is
\* neither LONG nor SHORT.  Discovery writes only those two, so such a row
\* comes from outside the bot (a manual edit of the table); BBB's row is an
\* ordinary ready Signal.
UnknownDirection == "FLAT"

UnknownDirectionTables ==
    /\ ticker_reference = Symbols
    /\ config \in {c \in ConfigSpace : /\ c.EXIT_STRATEGY = "FIXED"
                                       /\ ~c.EARLY_EXIT_ON_RSI_REVERSAL}
    /\ market \in [Symbols -> {RSI_MOMENTUM_ROOM_LONG, RSI_MOMENTUM_ROOM_SHORT}]
    /\ \E row \in EntryRows(config), score \in {0, WEIGHT_SPY_ALIGNMENT} :
          watchlist = [s \in Symbols |->
                          IF s = "AAA"
                          THEN [row EXCEPT !.direction = UnknownDirection,
                                           !.market_score = score]
                          ELSE row]
    /\ positions = <<>>
    /\ stop_orders = <<>>
    /\ pc = "idle"
    /\ now = SessionOpen
    /\ loop = LoopAtStart
    /\ log = NoLog
    /\ ghost = [s \in Symbols |-> GhostInit]

SpecUnknownDirection == UnknownDirectionTables /\ [][NextEntryPass]_vars

\* ------------------------------------------------------ the session clock
\* In the specifications above every job is observed inside the session.
\* Here time passes between jobs (never inside one: the loop is one
\* thread), so the jobs are also invoked before the open, after the close
\* and on a Saturday.  One configuration keeps the state space small.
Tick ==
    /\ pc = "idle"
    /\ now' \in ClockReadings \ {now}
    /\ UNCHANGED <<ticker_reference, config, market, watchlist, positions,
                   stop_orders, pc, log, ghost, loop>>

ClockStart ==
    /\ Init
    /\ config.STOP_LOSS_STRATEGY = "FIXED_WHOLE"
    /\ config.EXIT_STRATEGY = "FIXED"
    /\ ~config.EARLY_EXIT_ON_RSI_REVERSAL

NextClock ==
    \/ Next
    \/ Tick

SpecClock == ClockStart /\ [][NextClock]_vars

\* ------------------------------------------------------------ the main loop
\* main()'s while loop, one step per statement group: schedule.run_pending(),
\* the exit check, the sleep that ends an iteration, and the pause of the
\* exception handler.  The loop is followed from 15:44:00 on a Monday: the
\* 15:30 job has run and the 16:30 job is not due before the horizon, so the
\* only job run_pending can find due is the 15:45 entry job.
\* schedule runs a due job by calling its function and then rescheduling
\* it: when the function raises, the exception leaves run_pending before the
\* job is rescheduled, and the job is due again at the next call.
\* AAA has an open position entered on an earlier day, its RSI below the
\* exit target; BBB is either absent or a ready row without bar history, for
\* which the entry pass raises.
WallClock(clock) == [weekday |-> 0, minute |-> clock \div 60]

HeldRow ==
    [NewRow EXCEPT !.direction = "LONG",
                   !.extreme_price = Some(MinPrice),
                   !.is_ready = TRUE,
                   !.is_active = TRUE,
                   !.stop_loss = calculate_sid_stop_loss(Some(MinPrice), "LONG"),
                   !.fill_price = Some(MinPrice)]

LoopRunning ==
    /\ ticker_reference = {"AAA"}
    /\ config \in {c \in ConfigSpace : /\ c.EXIT_STRATEGY = "FIXED"
                                       /\ c.STOP_LOSS_STRATEGY = "FIXED_WHOLE"
                                       /\ ~c.EARLY_EXIT_ON_RSI_REVERSAL}
    /\ market = [s \in ticker_reference |-> RSI_MOMENTUM_ROOM_LONG]
    /\ watchlist \in {[s \in ticker_reference |-> HeldRow],
                      [s \in Symbols |-> IF s \in ticker_reference
                                         THEN HeldRow ELSE StaleRow]}
    /\ positions = [s \in ticker_reference |-> [qty |-> 1, side |-> "LONG"]]
    /\ stop_orders = [s \in ticker_reference |-> HeldRow.stop_loss[1]]
    /\ pc = "idle"
    /\ now = WallClock(LoopStart)
    /\ log = NoLog
    /\ ghost = [s \in Symbols |-> GhostInit]
    /\ \E d \in {0, EXIT_POLL_SECONDS \div 2, EXIT_POLL_SECONDS - 1} :
          loop = [at |-> "run_pending", clock |-> LoopStart,
                  last_exit_check |-> LoopStart - d, polled_at |-> LoopStart - d,
                  next_run |-> Some(EXECUTION_AT)]

\* schedule.run_pending(): the entry job runs when its time has come; it
\* returns at once outside the session; an exception of the entry pass
\* leaves the try block and the job stays due
main_run_pending ==
    /\ loop.at = "run_pending"
    /\ pc = "idle"
    /\ IF loop.next_run = None \/ loop.next_run[1] > loop.clock
       THEN /\ loop' = [loop EXCEPT !.at = "exit_check"]
            /\ UNCHANGED <<watchlist, positions, stop_orders, log, ghost>>
       ELSE IF ~is_market_open(now)
       THEN /\ loop' = [loop EXCEPT !.at = "exit_check", !.next_run = None]
            /\ UNCHANGED <<watchlist, positions, stop_orders, log, ghost>>
       ELSE \E account \in AccountsRead, order \in ScoreOrders(watchlist) :
              \E inp \in [ReadySignals(watchlist) -> EntryInputs] :
                /\ \A s \in ReadySignals(watchlist) : inp[s] \in EntryInputsFor(account, s)
                /\ LET st == execute_sid_entries(account, order, inp)
                   IN /\ watchlist' = st.w
                      /\ positions' = st.pos
                      /\ stop_orders' = st.stops
                      /\ log' = st.log
                      /\ ghost' = st.ghost
                      /\ loop' = IF st.aborted
                                 THEN [loop EXCEPT !.at = "pause"]
                                 ELSE [loop EXCEPT !.at = "exit_check",
                                                   !.next_run = None]
    /\ UNCHANGED <<ticker_reference, config, market, pc, now>>

\* if current_time - last_exit_check >= 300: run_exit_logic()
main_exit_check ==
    /\ loop.at = "exit_check"
    /\ pc = "idle"
    /\ IF loop.clock - loop.last_exit_check >= EXIT_POLL_SECONDS
       THEN /\ IF is_market_open(now)
               THEN exit_scan
               ELSE UNCHANGED <<watchlist, positions, stop_orders, log, ghost>>
            /\ loop' = [loop EXCEPT !.at = "sleep",
                                    !.last_exit_check = loop.clock,
                                    !.polled_at = loop.clock]
       ELSE /\ loop' = [loop EXCEPT !.at = "sleep"]
            /\ UNCHANGED <<watchlist, positions, stop_orders, log, ghost>>
    /\ UNCHANGED <<ticker_reference, config, market, pc, now>>

\* time.sleep(1), then the next iteration
main_sleep ==
    /\ loop.at = "sleep"
    /\ loop.clock + SLEEP_SECONDS <= LoopHorizon
    /\ loop' = [loop EXCEPT !.at = "run_pending", !.clock = @ + SLEEP_SECONDS]
    /\ now' = WallClock(loop.clock + SLEEP_SECONDS)
    /\ UNCHANGED <<ticker_reference, config, market, watchlist, positions,
                   stop_orders, pc, log, ghost>>

\* except Exception: log the error, time.sleep(30), then the next iteration
main_pause ==
    /\ loop.at = "pause"
    /\ loop.clock + PAUSE_SECONDS <= LoopHorizon
    /\ loop' = [loop EXCEPT !.at = "run_pending", !.clock = @ + PAUSE_SECONDS]
    /\ now' = WallClock(loop.clock + PAUSE_SECONDS)
    /\ UNCHANGED <<ticker_reference, config, market, watchlist, positions,
                   stop_orders, pc, log, ghost>>

NextLoop ==
    \/ main_run_pending
    \/ main_exit_check
    \/ main_sleep
    \/ main_pause

\* the loop is the program's one thread and each of its steps returns: it
\* keeps taking steps
SpecLoop == LoopRunning /\ [][NextLoop]_vars /\ WF_vars(NextLoop)


\* ================================================================ claims
ExitEvents == {"EARLY EXIT", "MOMENTUM EXIT", "FIXED EXIT"}

\* the symbols holding an open position whose watchlist row is active
OpenActive == {s \in Monitored : watchlist[s].is_active}

\* C1: for an active ATR_TRAIL signal whose position stays open, no step
\* moves the persisted stop_loss against the trade: a LONG stop never
\* decreases and a SHORT stop never increases.
C1_StopNeverLoosens ==
    [][\A s \in OpenActive :
          (/\ watchlist[s].stop_loss_strategy = "ATR_TRAIL"
           /\ watchlist[s].stop_loss # None
           /\ s \in DOMAIN positions'
           /\ s \in DOMAIN watchlist'
           /\ watchlist'[s].stop_loss # None)
          => /\ positions[s].side = "LONG"
                  => watchlist'[s].stop_loss[1] >= watchlist[s].stop_loss[1]
             /\ positions[s].side = "SHORT"
                  => watchlist'[s].stop_loss[1] <= watchlist[s].stop_loss[1]]_vars

\* C2: under MOMENTUM, Phase 1 runs at most once for a position, and a
\* cycle that finds the RSI at the target while Phase 1 has not yet run for
\* the position runs it, whatever else the cycle reads.
C2_Phase1ExactlyOnce ==
    \A s \in OpenActive :
        watchlist[s].exit_strategy = "MOMENTUM"
        => /\ ghost[s].phase1_runs <= 1
           /\ (ghost[s].phase1_runs = 0 /\ AtRsiTarget(positions[s].side, market[s]))
                 => \A inp \in ExitInputsFor(s) :
                       inp.bars >= EXIT_MIN_BARS
                       => MonitorOne(s, watchlist[s], positions[s], StopOf(s), inp).phase1

\* C3: a step that logs the Phase 2 close of a position read
\* partial_exit_done = true and an RSI at or past the target that reversed
\* against the trade relative to the prior reading, and did not also run
\* Phase 1; and the remainder of a partially exited MOMENTUM position is
\* closed by the monitor through no other exit.
C3_Phase2OnlyOnReversal ==
    [][\A s \in Symbols :
          /\ "MOMENTUM EXIT" \in log'[s].events
                => /\ s \in Monitored
                   /\ watchlist[s].exit_strategy = "MOMENTUM"
                   /\ watchlist[s].partial_exit_done
                   /\ log'[s].prev_rsi # None
                   /\ positions[s].side = "LONG"
                         => (market[s] >= RSI_EXIT_TARGET
                             /\ market[s] < log'[s].prev_rsi[1])
                   /\ positions[s].side = "SHORT"
                         => (market[s] <= RSI_EXIT_TARGET
                             /\ market[s] > log'[s].prev_rsi[1])
                   /\ "PHASE 1" \notin log'[s].events
                   /\ s \notin DOMAIN positions'
          /\ (/\ s \in Monitored
              /\ watchlist[s].exit_strategy = "MOMENTUM"
              /\ watchlist[s].partial_exit_done)
                => log'[s].events \cap ExitEvents \subseteq {"MOMENTUM EXIT"}]_vars

\* the Phase 2 close has just been logged for a position
C3_Witness ==
    \E s \in Symbols :
        /\ "MOMENTUM EXIT" \in log[s].events
        /\ s \notin DOMAIN positions
        /\ watchlist[s].partial_exit_done

\* C4: the row of a position that execute_sid_entries has opened holds
\* partial_exit_done = false until Phase 1 has run for that position.
C4_EntryStartsWithoutPartial ==
    \A s \in OpenActive :
        ghost[s].phase1_runs = 0 => ~watchlist[s].partial_exit_done

\* C5: no step changes partial_exit_done from true to false on a row whose
\* is_active is true, and no step deletes such a row.
C5_PartialNeverResets ==
    [][\A s \in DOMAIN watchlist :
          (watchlist[s].is_active /\ watchlist[s].partial_exit_done)
          => (s \in DOMAIN watchlist' /\ watchlist'[s].partial_exit_done)]_vars

\* the discovery upsert has re-staged an active, partially exited row
C5_Witness ==
    \E s \in DOMAIN watchlist :
        /\ watchlist[s].is_active
        /\ watchlist[s].partial_exit_done
        /\ ~watchlist[s].is_ready
        /\ pc = "tracked"

\* C6: a step that writes extreme_price on a row that keeps its direction
\* leaves it at or below the value before for LONG and at or above it for
\* SHORT.
C6_ExtremeNeverRegresses ==
    [][\A s \in (DOMAIN watchlist) \cap (DOMAIN watchlist') :
          (/\ watchlist[s].extreme_price # None
           /\ watchlist'[s].extreme_price # None
           /\ watchlist'[s].direction = watchlist[s].direction)
          => /\ watchlist[s].direction = "LONG"
                  => watchlist'[s].extreme_price[1] <= watchlist[s].extreme_price[1]
             /\ watchlist[s].direction = "SHORT"
                  => watchlist'[s].extreme_price[1] >= watchlist[s].extreme_price[1]]_vars

\* C7: when a preparation pass completes, the watchlist holds no non-active
\* row whose latest daily RSI is past the momentum-room threshold of its
\* direction.
C7_DriftedSignalRemoved ==
    [][(pc = "tracked" /\ pc' = "idle")
          => \A s \in (DOMAIN watchlist') \cap ticker_reference :
                ~watchlist'[s].is_active
                => ~OutOfRoom(watchlist'[s].direction, market'[s])]_vars

\* C8: execute_sid_entries opens a position only on a symbol that has been
\* promoted to ready since its last position was fully closed.
C8_ClosedIsTerminal ==
    \A s \in Symbols :
        "ENTRY" \in log[s].events => ~ghost[s].closed_since_ready

\* C9: is_active becomes true only in a step of execute_sid_entries that
\* entered the symbol and read its row with is_ready = true; is_ready
\* becomes true only in a step of validate_staged_signals that promoted the
\* symbol, on a row that discovery had created.
C9_NoSkippedStage ==
    [][\A s \in DOMAIN watchlist' :
          /\ (watchlist'[s].is_active
              /\ ~(s \in DOMAIN watchlist /\ watchlist[s].is_active))
                => /\ pc = "idle"
                   /\ "ENTRY" \in log'[s].events
                   /\ s \in DOMAIN watchlist
                   /\ watchlist[s].is_ready
                   /\ s \in DOMAIN positions'
          /\ (watchlist'[s].is_ready
              /\ ~(s \in DOMAIN watchlist /\ watchlist[s].is_ready))
                => /\ pc = "tracked"
                   /\ "READY" \in log'[s].events
                   /\ s \in DOMAIN watchlist
                   /\ ~watchlist[s].is_ready]_vars

\* a ready row has just been entered
C9_Witness ==
    \E s \in DOMAIN watchlist :
        /\ "ENTRY" \in log[s].events
        /\ watchlist[s].is_active
        /\ watchlist[s].is_ready

\* the three slopes as the gate reads them, against the row's direction
SlopesAgree(direction, inp) ==
    IF direction = "LONG"
    THEN /\ inp.daily_change > 0
         /\ inp.weekly_points >= WEEKLY_RSI_WINDOW /\ inp.weekly_change > 0
         /\ inp.macd_change > 0
    ELSE /\ inp.daily_change < 0
         /\ inp.weekly_points >= WEEKLY_RSI_WINDOW /\ inp.weekly_change < 0
         /\ inp.macd_change < 0

\* C10: whatever the gate reads for a staged row, it sets is_ready only if
\* the daily RSI, the weekly RSI (of at least 14 weekly points) and the MACD
\* line all turn in the row's direction, and otherwise leaves the row as it
\* was.
C10_GateIsConjunctive ==
    \A s \in StagedForValidation(watchlist) :
        \A inp \in ValidationInputs :
            LET out == ValidateOne(watchlist[s], inp)
            IN /\ out.row.is_ready => SlopesAgree(watchlist[s].direction, inp)
               /\ ~SlopesAgree(watchlist[s].direction, inp) => out.row = watchlist[s]

\* the gate has just promoted a row
C10_Witness ==
    \E s \in DOMAIN watchlist :
        /\ "READY" \in log[s].events
        /\ watchlist[s].is_ready
        /\ ~watchlist[s].is_active

\* C11: a staged Signal whose next earnings report is within
\* EARNINGS_RESTRICTION_DAYS days is left exactly as it was by the validation
\* gate of that cycle, whatever the three slopes are: it is not promoted to
\* ready and it is not removed from the watchlist.
WithinEarningsWindow(inp) ==
    /\ inp.days_to_earnings # None
    /\ inp.days_to_earnings[1] >= 0
    /\ inp.days_to_earnings[1] <= EARNINGS_RESTRICTION_DAYS

C11_EarningsWindowBlocks ==
    \A inp \in {i \in ValidationInputs : WithinEarningsWindow(i)} :
        LET staged == StagedForValidation(watchlist)
            out == validate_staged_signals(watchlist, [s \in staged |-> inp])
        IN \A s \in staged :
              /\ s \in DOMAIN out
              /\ out[s].row = watchlist[s]
              /\ "READY" \notin out[s].event

\* the gate has just blocked a staged Signal on its earnings date
C11_Witness ==
    \E s \in DOMAIN watchlist :
        /\ pc = "idle"
        /\ "BLOCKED" \in log[s].events
        /\ ~watchlist[s].is_ready

\* the columns a discovery touch rewrites on an existing row
DiscoveryColumns(row) ==
    <<row.direction, row.extreme_price, row.is_ready,
      row.stop_loss_strategy, row.exit_strategy>>

\* C12: the discovery pass overwrites only Signals that are not entered: for
\* every open, entered (is_active) Signal and every day's data, the pass
\* leaves direction, extreme_price, is_ready, stop_loss_strategy and
\* exit_strategy as they were.
C12_DiscoveryKeepsEntered ==
    \A d \in [ticker_reference -> DayData] :
        \A s \in OpenActive :
            DiscoveryColumns(populate_sid_extremes(watchlist, d)[s])
                = DiscoveryColumns(watchlist[s])

\* an open, entered Signal exists when a discovery pass is about to run
C12_Witness ==
    /\ pc = "idle"
    /\ \E s \in OpenActive : s \in ticker_reference

\* C13: once a Signal is entered, the validation gate of a later preparation
\* pass never selects it: when the gate is about to run, no open, entered
\* (is_active) Signal is among the rows it selects, so none has its
\* is_ready, next_earnings or logic_trail written by the gate.
C13_GateSkipsEntered ==
    pc = "tracked" => \A s \in OpenActive : s \notin StagedForValidation(watchlist)

\* the gate is about to run while an entered Signal is open
C13_Witness ==
    /\ pc = "tracked"
    /\ OpenActive # {}

\* the latest bar is strictly beyond the stored extreme on the Signal's side
StrictlyMoreExtreme(row, bar) ==
    /\ row.extreme_price # None
    /\ IF row.direction = "LONG" THEN bar.low < row.extreme_price[1]
       ELSE bar.high > row.extreme_price[1]

\* C14: the tracking pass changes extreme_price only on Signals that are not
\* entered, and only when the latest bar's low (LONG) or high (SHORT) is
\* strictly more extreme than the stored value; an open, entered Signal keeps
\* its extreme_price whatever the day's bar is.
C14_TrackingKeepsEntered ==
    \A d \in [ticker_reference -> DayData] :
        \A s \in DOMAIN watchlist :
            LET tracked == update_staged_extreme_prices(watchlist, d)[s]
            IN /\ s \in OpenActive =>
                      tracked.extreme_price = watchlist[s].extreme_price
               /\ tracked # watchlist[s] =>
                      /\ ~watchlist[s].is_active
                      /\ s \in DOMAIN d
                      /\ StrictlyMoreExtreme(watchlist[s], d[s])
                      /\ tracked = [watchlist[s] EXCEPT
                                       !.extreme_price = tracked.extreme_price]

\* an open, entered Signal has a stored extreme when the tracking pass is
\* about to run
C14_Witness ==
    /\ pc = "idle"
    /\ \E s \in OpenActive : s \in ticker_reference /\ watchlist[s].extreme_price # None

\* the RSI moved against the trade on each of the last two bars
MovedAgainstTwice(side, curr_rsi, inp) ==
    IF side = "LONG"
    THEN curr_rsi < inp.prev_rsi /\ inp.prev_rsi < inp.prev_prev_rsi
    ELSE curr_rsi > inp.prev_rsi /\ inp.prev_rsi > inp.prev_prev_rsi

BeforeTarget(side, curr_rsi) ==
    IF side = "LONG" THEN curr_rsi < RSI_EXIT_TARGET ELSE curr_rsi > RSI_EXIT_TARGET

\* C15: with EARLY_EXIT_ON_RSI_REVERSAL enabled, a cycle that reads enough
\* bars, an RSI not yet at the target, partial_exit_done = false and an RSI
\* that moved against the trade on two consecutive bars ends in exactly one
\* full close: the whole position is gone, is_active is false,
\* nothing else of the row is written, and no Phase 1, Phase 2, FIXED exit or
\* ratchet acts in that cycle. Conversely an early exit happens only under
\* these conditions, so it never coincides with a target rule.
C15_EarlyExitClosesAlone ==
    \A s \in Monitored :
        \A inp \in ExitInputs :
            LET row == watchlist[s]
                side == positions[s].side
                due == /\ config.EARLY_EXIT_ON_RSI_REVERSAL
                       /\ inp.bars >= EXIT_MIN_BARS
                       /\ BeforeTarget(side, market[s])
                       /\ ~row.partial_exit_done
                       /\ MovedAgainstTwice(side, market[s], inp)
                out == MonitorOne(s, row, positions[s], StopOf(s), inp)
            IN /\ due => /\ out.log.events = {"EARLY EXIT"}
                         /\ out.pos = None
                         /\ out.closed
                         /\ ~out.phase1
                         /\ out.row = [row EXCEPT !.is_active = FALSE]
               /\ "EARLY EXIT" \in out.log.events => due

\* a cycle has just closed a position by the early exit
C15_Witness ==
    \E s \in DOMAIN watchlist :
        /\ log[s].events = {"EARLY EXIT"}
        /\ s \notin DOMAIN positions
        /\ ~watchlist[s].is_active
        /\ config.EARLY_EXIT_ON_RSI_REVERSAL

\* C16: under the FIXED exit strategy a cycle that reads enough bars and an
\* RSI at the target (>= RSI_EXIT_TARGET for LONG, <= for SHORT) closes the
\* whole position with one order and sets is_active = false; a cycle in which
\* the RSI is not at the target and the early exit does not fire submits no
\* close order and leaves is_active as it was.
C16_FixedExitAtTarget ==
    \A s \in Monitored :
        \A inp \in ExitInputs :
            LET row == watchlist[s]
                side == positions[s].side
                at_target == ~BeforeTarget(side, market[s])
                early == /\ config.EARLY_EXIT_ON_RSI_REVERSAL
                         /\ ~row.partial_exit_done
                         /\ MovedAgainstTwice(side, market[s], inp)
                out == MonitorOne(s, row, positions[s], StopOf(s), inp)
            IN (row.exit_strategy = "FIXED" /\ inp.bars >= EXIT_MIN_BARS) =>
                  /\ at_target =>
                        /\ out.log.events = {"FIXED EXIT"}
                        /\ out.pos = None
                        /\ out.closed
                        /\ out.row = [row EXCEPT !.is_active = FALSE]
                  /\ (~at_target /\ ~early) =>
                        /\ out.log.events = {}
                        /\ out.pos = Some(positions[s])
                        /\ ~out.closed
                        /\ out.row.is_active = row.is_active

\* a cycle has just closed an entered position by the FIXED exit
C16_Witness ==
    \E s \in DOMAIN watchlist :
        /\ log[s].events = {"FIXED EXIT"}
        /\ watchlist[s].exit_strategy = "FIXED"
        /\ s \notin DOMAIN positions
        /\ ~watchlist[s].is_active

\* a cycle of a MOMENTUM position that reaches the Phase 1 branch
ReachesPhase1(s, inp) ==
    /\ watchlist[s].exit_strategy = "MOMENTUM"
    /\ inp.bars >= EXIT_MIN_BARS
    /\ ~watchlist[s].partial_exit_done
    /\ ~BeforeTarget(positions[s].side, market[s])

Phase1WithoutFill(s, inp) ==
    /\ ReachesPhase1(s, inp)
    /\ ~Truthy(watchlist[s].fill_price)

\* C18 as stated: when Phase 1 runs and fill_price is missing, the cycle
\* leaves stop_loss and the broker's stop order as they were and sets
\* partial_exit_done = true.
C18_MissingFillLeavesStop ==
    \A s \in Monitored :
        \A inp \in ExitInputs :
            LET out == MonitorOne(s, watchlist[s], positions[s], StopOf(s), inp)
            IN Phase1WithoutFill(s, inp) =>
                  /\ out.row.partial_exit_done
                  /\ out.row.stop_loss = watchlist[s].stop_loss
                  /\ out.stop = StopOf(s)

\* the stop the ratchet step alone gives an ATR_TRAIL row; the stored stop
\* for any other row
StopAfterRatchet(row, side, inp) ==
    IF row.stop_loss_strategy = "ATR_TRAIL" /\ Truthy(row.stop_loss)
    THEN Some(calculate_ratchet_stop(row.stop_loss[1], inp.close, inp.atr, side))
    ELSE row.stop_loss

\* C18, amended: when Phase 1 runs and fill_price is missing, Phase 1 writes
\* partial_exit_done = true and nothing else: no break-even stop is set, and
\* after the cycle stop_loss and the broker's stop order are exactly what the
\* ratchet step of the same cycle makes of the old stop (unchanged unless the
\* row is ATR_TRAIL and the ratchet tightens it).  While the row stands with
\* partial_exit_done = true, no later cycle runs Phase 1 on it or clears the
\* flag.
C18_MissingFillOnlyRatchets ==
    \A s \in Monitored :
          \A inp \in ExitInputs :
              LET row == watchlist[s]
                  out == MonitorOne(s, row, positions[s], StopOf(s), inp)
                  stop_after == StopAfterRatchet(row, positions[s].side, inp)
              IN /\ Phase1WithoutFill(s, inp) =>
                      /\ out.phase1
                      /\ "FILL MISSING" \in out.log.events
                      /\ "BREAK EVEN" \notin out.log.events
                      /\ out.row = [row EXCEPT !.partial_exit_done = TRUE,
                                               !.stop_loss = stop_after]
                      /\ out.stop = IF StopOf(s) = None THEN None
                                    ELSE IF stop_after = row.stop_loss THEN StopOf(s)
                                    ELSE stop_after
                 /\ row.partial_exit_done =>
                      /\ ~out.phase1
                      /\ "PHASE 1" \notin out.log.events
                      /\ out.row.partial_exit_done

\* Phase 1 has just run on a position whose row holds no fill price
C18_Witness ==
    \E s \in Monitored :
        /\ "FILL MISSING" \in log[s].events
        /\ ~Truthy(watchlist[s].fill_price)
        /\ watchlist[s].partial_exit_done
        /\ ghost[s].phase1_runs = 1

\* C19: in the batch passes a failure on one symbol stays with that symbol.
\* Whatever order the rows come in, the scoring pass and the entry pass
\* treat every symbol that has bars exactly as they would if the rows
\* without bars (on which they fail) were not in the batch.
C19_FailureConfined ==
    /\ \A order \in RowOrders(watchlist) :
          \A sin \in [DOMAIN watchlist -> ScoreInputs] :
              LET all == score_and_validate_staged(watchlist, order, sin)
                  rest == score_and_validate_staged(
                              watchlist, SelectSeq(order, HasBars), sin)
              IN \A s \in DOMAIN watchlist : HasBars(s) => all.w[s] = rest.w[s]
    /\ \A account \in AccountsRead, order \in ScoreOrders(watchlist) :
          \A inp \in [ReadySignals(watchlist) -> EntryInputs] :
              (\A s \in ReadySignals(watchlist) : inp[s] \in EntryInputsFor(account, s))
              => LET all == execute_sid_entries(account, order, inp)
                     rest == execute_sid_entries(
                                 account, SelectSeq(order, HasBars), inp)
                 IN all.w = rest.w /\ all.pos = rest.pos /\ all.stops = rest.stops

\* a batch holds a symbol with bars and a symbol without
C19_Witness ==
    /\ pc = "tracked"
    /\ \E s, f \in DOMAIN watchlist : HasBars(s) /\ ~HasBars(f)

\* C20: a symbol whose bar history is missing or too short is skipped in
\* silence by every stage: discovery, validation and exit monitoring leave
\* its Signal and position as they were, and the scoring and entry passes
\* raise no error over it, submit no order and leave the watchlist unchanged.
C20_ShortHistorySkipped ==
    /\ \A d \in [ticker_reference -> DayData] :
          \A s \in ticker_reference :
              d[s].bars < DISCOVERY_MIN_BARS =>
                  /\ s \in DOMAIN watchlist =>
                        populate_sid_extremes(watchlist, d)[s] = watchlist[s]
                  /\ s \notin DOMAIN watchlist =>
                        s \notin DOMAIN populate_sid_extremes(watchlist, d)
    /\ \A s \in StagedForValidation(watchlist) :
          \A inp \in ValidationInputs :
              inp.bars < VALIDATION_MIN_BARS =>
                  /\ ValidateOne(watchlist[s], inp).row = watchlist[s]
                  /\ "READY" \notin ValidateOne(watchlist[s], inp).event
    /\ \A s \in Monitored :
          \A inp \in ExitInputs :
              inp.bars < EXIT_MIN_BARS =>
                  LET out == MonitorOne(s, watchlist[s], positions[s], StopOf(s), inp)
                  IN /\ out.row = watchlist[s]
                     /\ out.pos = Some(positions[s])
                     /\ out.log.events = {}
    /\ \A order \in RowOrders(watchlist) :
          \A sin \in [DOMAIN watchlist -> ScoreInputs] :
              score_and_validate_staged(watchlist, order, sin).raised = {}
    /\ \A account \in AccountsRead, order \in ScoreOrders(watchlist) :
          \A inp \in [ReadySignals(watchlist) -> EntryInputs] :
              LET out == execute_sid_entries(account, order, inp)
              IN /\ ~out.aborted
                 /\ \A s \in ReadySignals(watchlist) :
                       ~HasBars(s) => /\ out.w[s] = watchlist[s]
                                      /\ s \notin DOMAIN out.pos

\* the entry pass is about to read a ready Signal that has no bars
C20_Witness ==
    /\ pc = "idle"
    /\ \E s \in ReadySignals(watchlist) : ~HasBars(s) /\ s \notin DOMAIN positions

\* ------------------------------------------------------------------ C21
\* C21: the fixed stop sits strictly beyond the extreme.  For every
\* extreme_price, calculate_sid_stop_loss returns for SHORT the smallest
\* whole number strictly greater than it and for LONG the largest whole
\* number strictly less than it: a whole number, never the extreme itself
\* and at most one unit away.  Every FIXED_WHOLE entry stores such a stop.
C21_StopStrictlyBeyondExtreme ==
    /\ \A p \in (MinPrice - TicksPerUnit)..(MaxPrice + TicksPerUnit) :
         LET short == calculate_sid_stop_loss(Some(p), "SHORT")
             long == calculate_sid_stop_loss(Some(p), "LONG")
         IN /\ short # None
            /\ short[1] % TicksPerUnit = 0
            /\ short[1] > p
            /\ short[1] - p <= TicksPerUnit
            /\ \A q \in (p + 1)..(short[1] - 1) : q % TicksPerUnit # 0
            /\ long # None
            /\ long[1] % TicksPerUnit = 0
            /\ long[1] < p
            /\ p - long[1] <= TicksPerUnit
            /\ \A q \in (long[1] + 1)..(p - 1) : q % TicksPerUnit # 0
    /\ \A s \in DOMAIN watchlist :
         LET row == watchlist[s]
         IN ("ENTRY" \in log[s].events /\ row.stop_loss_strategy = "FIXED_WHOLE")
            => /\ row.stop_loss # None
               /\ row.stop_loss[1] % TicksPerUnit = 0
               /\ row.direction = "LONG"
                     => /\ row.stop_loss[1] < row.extreme_price[1]
                        /\ row.extreme_price[1] - row.stop_loss[1] <= TicksPerUnit
               /\ row.direction = "SHORT"
                     => /\ row.stop_loss[1] > row.extreme_price[1]
                        /\ row.stop_loss[1] - row.extreme_price[1] <= TicksPerUnit

\* a LONG and a SHORT position were just entered with a fixed stop
C21_Witness ==
    /\ config.STOP_LOSS_STRATEGY = "FIXED_WHOLE"
    /\ \E s, u \in DOMAIN watchlist :
         /\ "ENTRY" \in log[s].events /\ watchlist[s].direction = "LONG"
         /\ "ENTRY" \in log[u].events /\ watchlist[u].direction = "SHORT"
         /\ watchlist[s].stop_loss # None /\ watchlist[u].stop_loss # None

\* ------------------------------------------------------------------ C22
\* the money at risk, in hundredths of a tick
RiskAmount(equity) == equity * RISK_PER_TRADE_PCT * TicksPerUnit

\* the stop the entry pass computes for a ready row
EntryStop(s, inp) ==
    IF config.STOP_LOSS_STRATEGY = "ATR_TRAIL"
    THEN Some(calculate_atr_stop(inp.close, inp.atr, watchlist[s].direction))
    ELSE calculate_sid_stop_loss(watchlist[s].extreme_price, watchlist[s].direction)

\* C22: position size is the floor of risk over distance, zero-safe.
\* For entry_price # stop_loss calculate_position_size returns the largest
\* whole number of shares whose risk |entry_price - stop_loss| per share
\* fits in equity * risk_percent; for entry_price = stop_loss it returns 0.
\* An entry pass submits no order for a Signal whose size is 0 or less.
C22_SizeIsFloorAndZeroSafe ==
    /\ \A equity \in EquityLevels :
         \A entry_price, stop_loss \in (MinPrice - TicksPerUnit)..(MaxPrice + TicksPerUnit) :
           LET qty == calculate_position_size(equity, RISK_PER_TRADE_PCT,
                                              entry_price, stop_loss)
               distance == IF entry_price >= stop_loss THEN entry_price - stop_loss
                           ELSE stop_loss - entry_price
           IN IF distance = 0 THEN qty = 0
              ELSE /\ 100 * distance * qty <= RiskAmount(equity)
                   /\ RiskAmount(equity) < 100 * distance * (qty + 1)
    /\ pc = "idle" =>
         \A account \in AccountsRead, order \in ScoreOrders(watchlist) :
           \A inp \in [ReadySignals(watchlist) -> EntryInputs] :
             (\A s \in ReadySignals(watchlist) : inp[s] \in EntryInputsFor(account, s))
             => LET st == execute_sid_entries(account, order, inp)
                IN \A s \in ReadySignals(watchlist) \ DOMAIN positions :
                     LET stop_loss == EntryStop(s, inp[s])
                         distance == IF inp[s].entry_price >= stop_loss[1]
                                     THEN inp[s].entry_price - stop_loss[1]
                                     ELSE stop_loss[1] - inp[s].entry_price
                     IN (stop_loss # None /\ RiskAmount(account.equity) < 100 * distance)
                        => /\ s \notin DOMAIN st.pos
                           /\ s \notin DOMAIN st.stops
                           /\ st.w[s].is_active = watchlist[s].is_active
                           /\ st.w[s].fill_price = watchlist[s].fill_price

\* a pass has stored a stop for a ready Signal in the momentum room and
\* placed no order, and the account's risk buys no share at that distance
C22_Witness ==
    \E s \in ReadySignals(watchlist) \ DOMAIN positions :
        /\ watchlist[s].stop_loss # None
        /\ watchlist[s].fill_price = None
        /\ ~watchlist[s].is_active
        /\ \E account \in AccountsRead :
             /\ s \in Enterable(account)
             /\ RiskAmount(account.equity)
                   < 100 * Abs(MaxPrice - watchlist[s].stop_loss[1])

\* ------------------------------------------------------------------ C23
\* C23: discovery is idempotent on unchanged data.  Running
\* populate_sid_extremes again over the same latest bars leaves every
\* Signal's extreme_price and direction as the previous run left them, also
\* when update_staged_extreme_prices ran on those bars in between.
C23_DiscoveryIdempotent ==
    pc = "idle" =>
      \A d \in [ticker_reference -> DayData] :
        LET first == populate_sid_extremes(watchlist, d)
            again == populate_sid_extremes(first, d)
            tracked == update_staged_extreme_prices(first, d)
            after == populate_sid_extremes(tracked, d)
        IN /\ DOMAIN again = DOMAIN first
           /\ DOMAIN after = DOMAIN tracked
           /\ \A s \in DOMAIN first :
                /\ again[s].extreme_price = first[s].extreme_price
                /\ again[s].direction = first[s].direction
                /\ after[s].extreme_price = tracked[s].extreme_price
                /\ after[s].direction = tracked[s].direction
                /\ s \in ticker_reference /\ Touched(d[s])
                      => /\ tracked[s].extreme_price = first[s].extreme_price
                         /\ tracked[s].direction = first[s].direction

\* discovery and tracking have just run on a touched symbol whose bar has a
\* range, and running them again on the same bars gives the same watchlist
C23_Witness ==
    /\ pc = "tracked"
    /\ \E d \in [ticker_reference -> DayData] :
         /\ \E s \in ticker_reference :
              /\ Touched(d[s])
              /\ d[s].rsi = market[s]
              /\ d[s].low < d[s].high
              /\ s \in DOMAIN watchlist
              /\ watchlist[s].direction = TouchDirection(d[s].rsi)[1]
              /\ ~watchlist[s].is_ready
         /\ watchlist = update_staged_extreme_prices(
                            populate_sid_extremes(watchlist, d), d)

\* ------------------------------------------------------------------ C24
\* every outcome of the preferred-list and SPY-alignment checks
AllScoreInputs == [preferred : BOOLEAN, spy_up : BOOLEAN]

\* C24: scoring is advisory.  Whatever score it computes for a Signal,
\* score_and_validate_staged leaves the Signal's is_ready, is_active,
\* direction, extreme_price and stop_loss (and every column other than
\* market_score) as they were, and neither adds nor removes a Signal.
C24_ScoringOnlyWritesScore ==
    \A order \in RowOrders(watchlist) :
      \A inp \in [DOMAIN watchlist -> AllScoreInputs] :
        LET out == score_and_validate_staged(watchlist, order, inp).w
        IN /\ DOMAIN out = DOMAIN watchlist
           /\ \A s \in DOMAIN watchlist :
                /\ out[s].is_ready = watchlist[s].is_ready
                /\ out[s].is_active = watchlist[s].is_active
                /\ out[s].direction = watchlist[s].direction
                /\ out[s].extreme_price = watchlist[s].extreme_price
                /\ out[s].stop_loss = watchlist[s].stop_loss
                /\ out[s] = [watchlist[s] EXCEPT !.market_score = out[s].market_score]

\* the prep job has scored a Signal above zero that the gate did not validate
C24_Witness ==
    /\ pc = "idle"
    /\ \E s \in DOMAIN watchlist :
         /\ watchlist[s].market_score > 0
         /\ ~watchlist[s].is_ready
         /\ ~watchlist[s].is_active
         /\ watchlist[s].stop_loss = None

\* ------------------------------------------------------------------ C25
\* a ready Signal the pass could enter: shorting permitted for a SHORT, no
\* position held, the latest RSI within the momentum room, and a size above 0
Eligible(account, s, inp) ==
    LET row == watchlist[s]
        stop_loss == EntryStop(s, inp)
        distance == IF inp.entry_price >= stop_loss[1]
                    THEN inp.entry_price - stop_loss[1]
                    ELSE stop_loss[1] - inp.entry_price
    IN /\ row.is_ready
       /\ row.direction = "SHORT"
             => (config.ALLOW_SHORT /\ account.shorting_enabled
                 /\ account.equity >= SHORTING_MIN_EQUITY)
       /\ s \notin DOMAIN positions
       /\ row.direction = "LONG" => market[s] <= RSI_MOMENTUM_ROOM_LONG
       /\ row.direction = "SHORT" => market[s] >= RSI_MOMENTUM_ROOM_SHORT
       /\ stop_loss # None
       /\ distance # 0
       /\ RiskAmount(account.equity) >= 100 * distance

\* C25, as stated: when an entry pass has fewer free slots than eligible
\* ready Signals, no Signal is entered while an eligible ready Signal with
\* a strictly higher market_score is left un-entered.
C25_HigherScoreNeverPassedOver ==
    pc = "idle" =>
      \A account \in AccountsRead, order \in ScoreOrders(watchlist) :
        \A inp \in [ReadySignals(watchlist) -> EntryInputs] :
          (\A s \in ReadySignals(watchlist) : inp[s] \in EntryInputsFor(account, s))
          => LET st == execute_sid_entries(account, order, inp)
                 entered == DOMAIN st.pos \ DOMAIN positions
                 eligible == {s \in ReadySignals(watchlist) :
                                 Eligible(account, s, inp[s])}
                 slots == MAX_OPEN_POSITIONS - Cardinality(DOMAIN positions)
             IN slots < Cardinality(eligible)
                => \A e \in entered, h \in eligible :
                     watchlist[h].market_score > watchlist[e].market_score
                     => h \in entered

\* C25, amended: within one entry pass ready Signals are served in
\* descending market_score order: no Signal is entered while an eligible
\* ready Signal with a strictly higher market_score is left without an
\* entry order.  The higher-scored Signal is either entered or its order
\* was submitted first and refused by the broker.
C25_HigherScoreServedFirst ==
    pc = "idle" =>
      \A account \in AccountsRead, order \in ScoreOrders(watchlist) :
        \A inp \in [ReadySignals(watchlist) -> EntryInputs] :
          (\A s \in ReadySignals(watchlist) : inp[s] \in EntryInputsFor(account, s))
          => LET st == execute_sid_entries(account, order, inp)
                 entered == DOMAIN st.pos \ DOMAIN positions
             IN \A e \in entered, h \in ReadySignals(watchlist) :
                  (/\ Eligible(account, h, inp[h])
                   /\ watchlist[h].market_score > watchlist[e].market_score)
                  => \/ h \in entered
                     \/ /\ ~inp[h].order_ok
                        /\ st.w[h].stop_loss = EntryStop(h, inp[h])

\* the last free slot went to the higher-scored of two ready Signals in the
\* momentum room; the lower-scored one is left for a later pass
C25_Witness ==
    /\ Cardinality(DOMAIN positions) = MAX_OPEN_POSITIONS
    /\ \E e, u \in ReadySignals(watchlist) :
         /\ "ENTRY" \in log[e].events
         /\ e \in DOMAIN positions
         /\ u \notin DOMAIN positions
         /\ "ENTRY" \notin log[u].events
         /\ watchlist[e].market_score > watchlist[u].market_score
         /\ watchlist[u].direction = "LONG"
         /\ market[u] <= RSI_MOMENTUM_ROOM_LONG
         /\ watchlist[u].stop_loss = None

\* ------------------------------------------------------------------ C26
\* the latest daily RSI leaves the direction room to run
InMomentumRoom(s) ==
    /\ watchlist[s].direction = "LONG" => market[s] <= RSI_MOMENTUM_ROOM_LONG
    /\ watchlist[s].direction = "SHORT" => market[s] >= RSI_MOMENTUM_ROOM_SHORT

\* C26: readiness is re-checked at entry time.  An entry pass submits an
\* order for a ready Signal only if the latest daily RSI is at most
\* RSI_MOMENTUM_ROOM_LONG (LONG) or at least RSI_MOMENTUM_ROOM_SHORT
\* (SHORT); a Signal failing the check gets no order and its row (stop_loss,
\* is_active, fill_price and every other column) is left as it was.
C26_RoomRecheckedAtEntry ==
    pc = "idle" =>
      \A account \in AccountsRead, order \in ScoreOrders(watchlist) :
        \A inp \in [ReadySignals(watchlist) -> EntryInputs] :
          (\A s \in ReadySignals(watchlist) : inp[s] \in EntryInputsFor(account, s))
          => LET st == execute_sid_entries(account, order, inp)
             IN \A s \in ReadySignals(watchlist) :
                  /\ s \in DOMAIN st.pos \ DOMAIN positions => InMomentumRoom(s)
                  /\ ~InMomentumRoom(s)
                        => /\ s \in DOMAIN st.pos <=> s \in DOMAIN positions
                           /\ s \in DOMAIN st.stops <=> s \in DOMAIN stop_orders
                           /\ st.w[s].stop_loss = watchlist[s].stop_loss
                           /\ st.w[s].is_active = watchlist[s].is_active
                           /\ st.w[s].fill_price = watchlist[s].fill_price
                           /\ st.w[s] = watchlist[s]

\* a pass has just entered one ready Signal and left the other, whose RSI is
\* outside the momentum room, without a position, a stop or a fill price
C26_Witness ==
    \E e, s \in ReadySignals(watchlist) :
        /\ "ENTRY" \in log[e].events
        /\ ~InMomentumRoom(s)
        /\ s \notin DOMAIN positions
        /\ watchlist[s].stop_loss = None
        /\ watchlist[s].fill_price = None
        /\ ~watchlist[s].is_active

\* ------------------------------------------------------------------ C27
\* the stop stored when the ratchet step is reached: the break-even stop if
\* Phase 1 ran in this cycle and wrote one, the Signal's stop_loss otherwise
StopBeforeRatchet(row, out) ==
    IF out.phase1 /\ Truthy(row.fill_price) THEN row.fill_price ELSE row.stop_loss

\* the conditions under which C27 lets the ratchet run
RatchetRuns(row, out) ==
    /\ row.stop_loss_strategy = "ATR_TRAIL"
    /\ Truthy(row.stop_loss)
    /\ ~out.closed

\* C27: the ratchet keeps the more favourable stop.  In a monitoring cycle
\* that reaches the ratchet with ATR_TRAIL, a stored stop and the position
\* not fully closed, the Signal's stop_loss ends as the more favourable of
\* the stored stop and the newly computed one (the larger for LONG, the
\* smaller for SHORT); in every other cycle, and always under FIXED_WHOLE,
\* the ratchet leaves stop_loss as the exit rules left it.
C27_RatchetKeepsFavourable ==
    \A s \in Monitored :
      \A inp \in ExitInputsFor(s) :
        LET row == watchlist[s]
            side == positions[s].side
            out == MonitorOne(s, row, positions[s], StopOf(s), inp)
            stored == StopBeforeRatchet(row, out)
            new_stop == IF side = "LONG" THEN inp.close - inp.atr * ATR_MULTIPLIER
                        ELSE inp.close + inp.atr * ATR_MULTIPLIER
        IN inp.bars >= EXIT_MIN_BARS
           => IF RatchetRuns(row, out)
              THEN /\ out.row.stop_loss # None
                   /\ side = "LONG" =>
                        /\ out.row.stop_loss[1] >= stored[1]
                        /\ out.row.stop_loss[1] >= new_stop
                        /\ out.row.stop_loss[1] \in {stored[1], new_stop}
                   /\ side = "SHORT" =>
                        /\ out.row.stop_loss[1] <= stored[1]
                        /\ out.row.stop_loss[1] <= new_stop
                        /\ out.row.stop_loss[1] \in {stored[1], new_stop}
              ELSE out.row.stop_loss = stored

\* Phase 1 has just moved a LONG position's stop to break-even and the
\* Signal's stop_loss is below its fill price after the same cycle
C27_Witness ==
    \E s \in DOMAIN watchlist \cap DOMAIN positions :
        /\ "PHASE 1" \in log[s].events
        /\ "BREAK EVEN" \in log[s].events
        /\ positions[s].side = "LONG"
        /\ watchlist[s].stop_loss_strategy = "ATR_TRAIL"
        /\ watchlist[s].stop_loss # None /\ watchlist[s].fill_price # None
        /\ watchlist[s].stop_loss[1] < watchlist[s].fill_price[1]

\* ------------------------------------------------------------------ C28
\* C28: expiry sweeps only inactive, stale Signals.  Whatever the age of
\* each Signal's rsi_touch_date, cleanup_expired_signals deletes a Signal
\* only if it is not active and was touched more than SIGNAL_EXPIRY_DAYS
\* days ago: an active Signal is kept at any age, a non-active one touched
\* within the window is kept, and a kept Signal's row is not changed.
C28_SweepOnlyInactiveStale ==
    \A age \in [DOMAIN watchlist -> TouchAges] :
      LET out == cleanup_expired_signals(watchlist, age)
      IN /\ DOMAIN out \subseteq DOMAIN watchlist
         /\ \A s \in DOMAIN watchlist :
              /\ s \notin DOMAIN out
                    => (~watchlist[s].is_active /\ age[s] > SIGNAL_EXPIRY_DAYS)
              /\ watchlist[s].is_active => s \in DOMAIN out
              /\ age[s] <= SIGNAL_EXPIRY_DAYS => s \in DOMAIN out
              /\ s \in DOMAIN out => out[s] = watchlist[s]

\* a sweep has just deleted one Signal and kept an active one
C28_Witness ==
    \E s \in Symbols, k \in DOMAIN watchlist :
        /\ "EXPIRED" \in log[s].events
        /\ s \notin DOMAIN watchlist
        /\ watchlist[k].is_active
        /\ k \in DOMAIN positions

\* ------------------------------------------------------------------ C29
\* C29: an invalid direction is a no-op.  calculate_sid_stop_loss returns
\* no stop for a direction other than LONG and SHORT, and an entry pass
\* that meets a ready Signal with such a direction submits no order for it
\* and runs to its end without an exception leaving execute_sid_entries.
C29_InvalidDirectionIsNoOp ==
    /\ \A p \in MinPrice..MaxPrice :
         calculate_sid_stop_loss(Some(p), UnknownDirection) = None
    /\ pc = "idle" =>
         \A account \in AccountsRead, order \in ScoreOrders(watchlist) :
           \A inp \in [ReadySignals(watchlist) -> EntryInputs] :
             (\A s \in ReadySignals(watchlist) : inp[s] \in EntryInputsFor(account, s))
             => LET st == execute_sid_entries(account, order, inp)
                IN /\ ~st.aborted
                   /\ \A s \in ReadySignals(watchlist) :
                        watchlist[s].direction \notin {"LONG", "SHORT"}
                        => /\ s \in DOMAIN st.pos <=> s \in DOMAIN positions
                           /\ s \in DOMAIN st.stops <=> s \in DOMAIN stop_orders

\* a pass has just entered the Signal with the unknown direction: a short
\* position is open for it
C29_Witness ==
    \E s \in DOMAIN watchlist \cap DOMAIN positions :
        /\ watchlist[s].direction = UnknownDirection
        /\ "ENTRY" \in log[s].events
        /\ positions[s].side = "SHORT"
        /\ watchlist[s].is_active

\* ------------------------------------------------------------------ C30
\* the session window: a weekday, 09:30 to 16:00 Eastern, ends included
InSession(t) ==
    /\ t.weekday \in 0..4
    /\ t.minute >= MARKET_START
    /\ t.minute <= MARKET_END

\* C30: jobs are no-ops outside the market session.  is_market_open holds
\* exactly within the window, and while the clock is outside it no step is
\* a step of run_exit_logic, of run_prep_sequence or of
\* run_execution_sequence: they read nothing, write no Signal and submit no
\* order.
C30_ClosedSessionNoOp ==
    [][/\ \A t \in [weekday : 0..6,
                    minute : {MARKET_START - 1, MARKET_START, MARKET_END,
                              MARKET_END + 1}] :
             is_market_open(t) <=> InSession(t)
       /\ ~InSession(now)
             => /\ ~run_exit_logic
                /\ ~prep_discover_and_track
                /\ ~run_execution_sequence
                /\ watchlist' # watchlist => run_daily_maintenance
                /\ DOMAIN positions \subseteq DOMAIN positions'
                      \/ BrokerStopFill]_vars

\* outside the session a position sits at its exit target and a ready
\* Signal sits in the momentum room: the exit scan and the entry pass would
\* both act if they ran
C30_Witness ==
    /\ ~InSession(now)
    /\ pc = "idle"
    /\ \E s \in Monitored :
         /\ watchlist[s].is_active
         /\ watchlist[s].exit_strategy = "FIXED"
         /\ positions[s].side = "LONG"
         /\ market[s] >= RSI_EXIT_TARGET

\* ------------------------------------------------------------------ C32
\* C32: the break-even stop survives the cycle that set it.  After a
\* monitoring cycle in which Phase 1 ran with a fill price stored, the
\* Signal's stop_loss is the fill price or a value more favourable to the
\* trade: not below it for a LONG position, not above it for a SHORT one.
C32_BreakEvenSurvivesCycle ==
    \A s \in Monitored :
      \A inp \in ExitInputsFor(s) :
        LET row == watchlist[s]
            side == positions[s].side
            out == MonitorOne(s, row, positions[s], StopOf(s), inp)
        IN (/\ "PHASE 1" \in out.log.events
            /\ row.fill_price # None
            /\ row.fill_price[1] # 0)
           => /\ out.row.stop_loss # None
              /\ side = "LONG" => out.row.stop_loss[1] >= row.fill_price[1]
              /\ side = "SHORT" => out.row.stop_loss[1] <= row.fill_price[1]

\* Phase 1 has just moved a SHORT position's stop to break-even and the
\* Signal's stop_loss is above its fill price after the same cycle
C32_Witness ==
    \E s \in DOMAIN watchlist \cap DOMAIN positions :
        /\ "PHASE 1" \in log[s].events
        /\ "BREAK EVEN" \in log[s].events
        /\ positions[s].side = "SHORT"
        /\ watchlist[s].fill_price # None
        /\ watchlist[s].stop_loss # None
        /\ watchlist[s].stop_loss[1] > watchlist[s].fill_price[1]

\* ------------------------------------------------------------------ C33
\* the watchlist and the positions a monitoring cycle leaves
WatchlistAfterCycle(out) ==
    [s \in DOMAIN watchlist |-> IF s \in Monitored THEN out[s].row ELSE watchlist[s]]

PositionsAfterCycle(out) ==
    {s \in DOMAIN positions : s \in Monitored => out[s].pos # None}

\* C33: an active Signal has an open position.  At the end of every
\* monitoring cycle each Signal with is_active = true has an open broker
\* position for its symbol: whichever way a position was closed, the cycle
\* that follows leaves its Signal inactive.
C33_ActiveHasPositionAfterCycle ==
    (pc = "idle" /\ is_market_open(now))
    => \A inp \in [Monitored -> ExitInputs] :
         (\A s \in Monitored : inp[s] \in ExitInputsFor(s))
         => LET out == monitor_and_execute_exits(inp)
            IN \A s \in DOMAIN watchlist :
                 WatchlistAfterCycle(out)[s].is_active
                 => s \in PositionsAfterCycle(out)

\* the broker's stop order has closed the position of an active Signal, and
\* a monitoring cycle run now finds no position and leaves the row as it is
C33_Witness ==
    /\ pc = "idle"
    /\ is_market_open(now)
    /\ \E s \in DOMAIN watchlist :
         /\ watchlist[s].is_active
         /\ s \notin DOMAIN positions
         /\ s \notin DOMAIN stop_orders
         /\ ghost[s].closed_since_ready
         /\ s \notin Monitored

\* ------------------------------------------------------------------ C34
\* C34: an entry pass never raises the number of open positions above
\* MAX_OPEN_POSITIONS.  A pass that starts with the limit reached enters
\* nothing; any other pass enters at most as many Signals as slots are
\* free, so the positions read at its start plus those it entered never
\* exceed the limit.
C34_EntryPassRespectsLimit ==
    pc = "idle" =>
      \A account \in AccountsRead, order \in ScoreOrders(watchlist) :
        \A inp \in [ReadySignals(watchlist) -> EntryInputs] :
          (\A s \in ReadySignals(watchlist) : inp[s] \in EntryInputsFor(account, s))
          => LET st == execute_sid_entries(account, order, inp)
                 held == Cardinality(DOMAIN positions)
                 entered == DOMAIN st.pos \ DOMAIN positions
             IN /\ DOMAIN positions \subseteq DOMAIN st.pos
                /\ held >= MAX_OPEN_POSITIONS => entered = {}
                /\ held < MAX_OPEN_POSITIONS
                      => Cardinality(entered) <= MAX_OPEN_POSITIONS - held
                /\ held <= MAX_OPEN_POSITIONS
                      => Cardinality(DOMAIN st.pos) <= MAX_OPEN_POSITIONS

\* a pass has just entered a Signal into the last free slot and left a
\* second ready Signal, with its RSI inside the momentum room, un-entered
C34_Witness ==
    /\ Cardinality(DOMAIN positions) = MAX_OPEN_POSITIONS
    /\ \E e, s \in ReadySignals(watchlist) :
         /\ "ENTRY" \in log[e].events
         /\ e \in DOMAIN positions
         /\ s \notin DOMAIN positions
         /\ InMomentumRoom(s)
         /\ watchlist[s].direction = "LONG"
         /\ ~watchlist[s].is_active
         /\ watchlist[s].stop_loss = None

\* ------------------------------------------------------------------ C35
\* C35: at most one position per symbol.  An entry pass submits no entry
\* order for a symbol that has an open position: the position, its stop
\* order and the Signal's row are after the pass what they were before it,
\* and no entry is logged for the symbol.  A symbol entered by the pass is
\* entered once: it had no position before, and its row is read once.
C35_OnePositionPerSymbol ==
    pc = "idle" =>
      \A account \in AccountsRead, order \in ScoreOrders(watchlist) :
        \A inp \in [ReadySignals(watchlist) -> EntryInputs] :
          (\A s \in ReadySignals(watchlist) : inp[s] \in EntryInputsFor(account, s))
          => LET st == execute_sid_entries(account, order, inp)
             IN /\ \A s \in DOMAIN watchlist \cap DOMAIN positions :
                     /\ s \in DOMAIN st.pos
                     /\ st.pos[s] = positions[s]
                     /\ st.w[s] = watchlist[s]
                     /\ "ENTRY" \notin st.log[s].events
                     /\ s \in DOMAIN stop_orders
                           => (s \in DOMAIN st.stops /\ st.stops[s] = stop_orders[s])
                     /\ s \notin DOMAIN stop_orders => s \notin DOMAIN st.stops
                /\ \A s \in DOMAIN watchlist :
                     "ENTRY" \in st.log[s].events
                     => /\ s \notin DOMAIN positions
                        /\ Cardinality({i \in DOMAIN order : order[i] = s}) = 1

\* a ready Signal, its RSI inside the momentum room, has a position from an
\* earlier pass, and a slot is free: only the open position keeps the next
\* pass from entering it again
C35_Witness ==
    /\ pc = "idle"
    /\ Cardinality(DOMAIN positions) < MAX_OPEN_POSITIONS
    /\ \E s \in ReadySignals(watchlist) \cap DOMAIN positions :
         /\ watchlist[s].is_active
         /\ watchlist[s].direction = "LONG"
         /\ InMomentumRoom(s)
         /\ log[s] = NoEntry

\* ------------------------------------------------------------------ C36
\* shorting is permitted for the pass: ALLOW_SHORT, the account's shorting
\* flag and the equity floor
ShortingPermitted(account) ==
    /\ config.ALLOW_SHORT
    /\ account.shorting_enabled
    /\ account.equity >= SHORTING_MIN_EQUITY

C37_FailedOrderNotEntered ==
    pc = "idle" =>
      \A account \in AccountsRead, order \in ScoreOrders(watchlist) :
        \A inp \in [ReadySignals(watchlist) -> EntryInputs] :
          (\A s \in ReadySignals(watchlist) : inp[s] \in EntryInputsFor(account, s))
          => LET st == execute_sid_entries(account, order, inp)
                 entered == DOMAIN st.pos \ DOMAIN positions
                 failed == {s \in ReadySignals(watchlist) :
                               /\ Eligible(account, s, inp[s])
                               /\ ~inp[s].order_ok}
             IN /\ \A s \in failed :
                     /\ st.w[s].is_active = watchlist[s].is_active
                     /\ st.w[s].fill_price = watchlist[s].fill_price
                     /\ s \notin entered
                     /\ s \notin DOMAIN st.stops
                     /\ "ENTRY" \notin st.log[s].events
                /\ Cardinality(DOMAIN st.pos) - Cardinality(DOMAIN positions)
                      = Cardinality({s \in DOMAIN watchlist :
                                        "ENTRY" \in st.log[s].events})
                /\ \A s \in failed, e \in ReadySignals(watchlist) :
                     (/\ e # s
                      /\ Cardinality(DOMAIN positions) < MAX_OPEN_POSITIONS
                      /\ Eligible(account, e, inp[e])
                      /\ inp[e].order_ok)
                     => e \in entered

\* a pass has just entered one Signal after the order of the other, which
\* has the higher score, failed: that Signal carries the stop the pass
\* computed for it and is neither active nor filled
C37_Witness ==
    \E e, s \in ReadySignals(watchlist) :
        /\ "ENTRY" \in log[e].events
        /\ watchlist[s].market_score > watchlist[e].market_score
        /\ watchlist[s].direction = "LONG"
        /\ InMomentumRoom(s)
        /\ watchlist[s].stop_loss # None
        /\ ~watchlist[s].is_active
        /\ watchlist[s].fill_price = None
        /\ s \notin DOMAIN positions
        /\ s \notin DOMAIN stop_orders

\* ------------------------------------------------------------------ C38
\* C38: every entry order carries a protective stop on the adverse side of
\* the entry price.  For each Signal an entry pass enters, under FIXED_WHOLE
\* and under ATR_TRAIL, the stop of the order is below the live entry price
\* for a LONG entry and above it for a SHORT entry.
C38_StopOnAdverseSide ==
    pc = "idle" =>
      \A account \in AccountsRead, order \in ScoreOrders(watchlist) :
        \A inp \in [ReadySignals(watchlist) -> EntryInputs] :
          (\A s \in ReadySignals(watchlist) : inp[s] \in EntryInputsFor(account, s))
          => LET st == execute_sid_entries(account, order, inp)
             IN \A s \in DOMAIN st.pos \ DOMAIN positions :
                  /\ s \in DOMAIN st.stops
                  /\ st.pos[s].side = "LONG" => st.stops[s] < inp[s].entry_price
                  /\ st.pos[s].side = "SHORT" => st.stops[s] > inp[s].entry_price

\* a pass has just entered a SHORT Signal whose stop order lies below the
\* price at which it was entered
C38_Witness ==
    \E s \in DOMAIN watchlist \cap DOMAIN positions :
        /\ "ENTRY" \in log[s].events
        /\ positions[s].side = "SHORT"
        /\ s \in DOMAIN stop_orders
        /\ watchlist[s].fill_price # None
        /\ stop_orders[s] < watchlist[s].fill_price[1]
        /\ watchlist[s].stop_loss = Some(stop_orders[s])

\* ------------------------------------------------------------------ C31
\* C31: the loop survives every exception and keeps polling the exits.
\* Every exception of a job or of the exit scan ends in the handler's
\* pause followed by the next iteration, so while the session is open the
\* time since run_exit_logic was last called never exceeds the 300 seconds
\* between two scans plus the 30 seconds of one pause.
C31_ExitPolledInSession ==
    /\ loop.at \in {"run_pending", "exit_check", "sleep", "pause"}
    /\ is_market_open(now)
          => loop.clock - loop.polled_at <= EXIT_POLL_SECONDS + PAUSE_SECONDS

\* the session is open and a position is held, the entry job has just
\* raised again and the loop is about to pause, and the last call of
\* run_exit_logic lies more than 330 seconds back
C31_Witness ==
    /\ loop.at = "pause"
    /\ is_market_open(now)
    /\ Monitored # {}
    /\ \E s \in DOMAIN watchlist : "RAISED" \in log[s].events
    /\ loop.next_run # None
    /\ loop.next_run[1] <= loop.clock
    /\ loop.clock - loop.polled_at > EXIT_POLL_SECONDS + PAUSE_SECONDS

====
